---- MODULE Spec2Model ----
(***************************************************************************)
(* A model of the value primitives of vedadiyan/sqlparser: the MySQL type  *)
(* code conversion (pkg/sqltypes/type.go), the decimal scanner             *)
(* (pkg/mysql/decimal/scan.go), the date and time arithmetic               *)
(* (pkg/mysql/datetime/datetime.go) and the join grammar of the parser.    *)
(*                                                                         *)
(* The library is a set of pure functions.  The state of the model is the  *)
(* record of the last call: which function ran (op), on which input (arg), *)
(* and what it returned (res).  Every function is an operator computed the *)
(* way the source computes it; every action draws an input from a bounded  *)
(* set and applies one function.                                           *)
(***************************************************************************)
EXTENDS Integers, Sequences, FiniteSets, TLC

VARIABLES op, arg, res

vars == <<op, arg, res>>

\* The state after construction: nothing has been called yet.
NoCall == [none |-> TRUE]

Init ==
    /\ op = "init"
    /\ arg = NoCall
    /\ res = NoCall

\* The caller takes the result; the library is ready for the next call.
Return ==
    /\ op # "init"
    /\ op' = "init"
    /\ arg' = NoCall
    /\ res' = NoCall

(***************************************************************************)
(*                      pkg/sqltypes/type.go                               *)
(***************************************************************************)

\* querypb.Type, by the names of type.go's synonyms (lines 152-190).
Types ==
    { "NULL_TYPE", "INT8", "UINT8", "INT16", "UINT16", "INT24", "UINT24",
      "INT32", "UINT32", "INT64", "UINT64", "FLOAT32", "FLOAT64",
      "TIMESTAMP", "DATE", "TIME", "DATETIME", "YEAR", "DECIMAL", "TEXT",
      "BLOB", "VARCHAR", "VARBINARY", "CHAR", "BINARY", "BIT", "ENUM",
      "SET", "GEOMETRY", "JSON", "EXPRESSION", "HEXNUM", "HEXVAL",
      "TUPLE", "BITNUM", "VECTOR" }

mysqlUnsigned == 32
mysqlBinary == 128
mysqlEnum == 256
mysqlSet == 2048

\* flags&mask != 0, for a mask that is one bit.
HasFlag(flags, mask) == (flags \div mask) % 2 = 1

mysqlToType_Mutant ==
    (0 :> "DECIMAL") @@ (1 :> "INT8") @@ (2 :> "INT16") @@ (3 :> "INT32") @@
    (4 :> "FLOAT32") @@ (5 :> "FLOAT64") @@ (6 :> "NULL_TYPE") @@
    (7 :> "TIMESTAMP") @@ (8 :> "INT64") @@ (9 :> "INT24") @@ (10 :> "DATE") @@
    (11 :> "TIME") @@ (12 :> "DATETIME") @@ (13 :> "YEAR") @@
    (14 :> "DATE") @@ (15 :> "VARCHAR") @@
    (16 :> "BIT") @@ (17 :> "TIMESTAMP") @@ (18 :> "DATETIME") @@
    (19 :> "TIME") @@ (242 :> "VECTOR") @@ (245 :> "JSON") @@
    (246 :> "DECIMAL") @@ (247 :> "ENUM") @@ (248 :> "SET") @@
    (249 :> "TEXT") @@ (250 :> "TEXT") @@ (251 :> "TEXT") @@ (252 :> "TEXT") @@
    (253 :> "VARCHAR") @@ (254 :> "CHAR") @@ (255 :> "GEOMETRY")

mysqlToType ==
    (0 :> "DECIMAL") @@ (1 :> "INT8") @@ (2 :> "INT16") @@ (3 :> "INT32") @@
    (4 :> "FLOAT32") @@ (5 :> "FLOAT64") @@ (6 :> "NULL_TYPE") @@
    (7 :> "TIMESTAMP") @@ (8 :> "INT64") @@ (9 :> "INT24") @@ (10 :> "DATE") @@
    (11 :> "TIME") @@ (12 :> "DATETIME") @@ (13 :> "YEAR") @@ (15 :> "VARCHAR") @@
    (16 :> "BIT") @@ (17 :> "TIMESTAMP") @@ (18 :> "DATETIME") @@
    (19 :> "TIME") @@ (242 :> "VECTOR") @@ (245 :> "JSON") @@
    (246 :> "DECIMAL") @@ (247 :> "ENUM") @@ (248 :> "SET") @@
    (249 :> "TEXT") @@ (250 :> "TEXT") @@ (251 :> "TEXT") @@ (252 :> "TEXT") @@
    (253 :> "VARCHAR") @@ (254 :> "CHAR") @@ (255 :> "GEOMETRY")

\* A switch on the type; each case tests its own flags in the order of the
\* source and falls out of the switch to "return typ".
modifyType_NoUnsigned(typ, flags) ==
    CASE typ = "TEXT" /\ HasFlag(flags, mysqlBinary) -> "BLOB"
      [] typ = "VARCHAR" /\ HasFlag(flags, mysqlBinary) -> "VARBINARY"
      [] typ = "CHAR" /\ HasFlag(flags, mysqlBinary) -> "BINARY"
      [] typ = "CHAR" /\ ~HasFlag(flags, mysqlBinary)
                      /\ HasFlag(flags, mysqlEnum) -> "ENUM"
      [] typ = "CHAR" /\ ~HasFlag(flags, mysqlBinary)
                      /\ ~HasFlag(flags, mysqlEnum)
                      /\ HasFlag(flags, mysqlSet) -> "SET"
      [] OTHER -> typ

modifyType(typ, flags) ==
    CASE typ = "INT8" /\ HasFlag(flags, mysqlUnsigned) -> "UINT8"
      [] typ = "INT16" /\ HasFlag(flags, mysqlUnsigned) -> "UINT16"
      [] typ = "INT32" /\ HasFlag(flags, mysqlUnsigned) -> "UINT32"
      [] typ = "INT64" /\ HasFlag(flags, mysqlUnsigned) -> "UINT64"
      [] typ = "INT24" /\ HasFlag(flags, mysqlUnsigned) -> "UINT24"
      [] typ = "TEXT" /\ HasFlag(flags, mysqlBinary) -> "BLOB"
      [] typ = "VARCHAR" /\ HasFlag(flags, mysqlBinary) -> "VARBINARY"
      [] typ = "CHAR" /\ HasFlag(flags, mysqlBinary) -> "BINARY"
      [] typ = "CHAR" /\ ~HasFlag(flags, mysqlBinary)
                      /\ HasFlag(flags, mysqlEnum) -> "ENUM"
      [] typ = "CHAR" /\ ~HasFlag(flags, mysqlBinary)
                      /\ ~HasFlag(flags, mysqlEnum)
                      /\ HasFlag(flags, mysqlSet) -> "SET"
      [] OTHER -> typ

\* (typ, err): on an unknown code the type is 0, which is NULL_TYPE.
MySQLToType(mysqlType, flags) ==
    IF mysqlType \notin DOMAIN mysqlToType
    THEN [typ |-> "NULL_TYPE", err |-> "unsupported type"]
    ELSE [typ |-> modifyType(mysqlToType[mysqlType], flags), err |-> "nil"]

typeToMySQL ==
    ("INT8" :> [typ |-> 1, flags |-> 0]) @@
    ("UINT8" :> [typ |-> 1, flags |-> mysqlUnsigned]) @@
    ("INT16" :> [typ |-> 2, flags |-> 0]) @@
    ("UINT16" :> [typ |-> 2, flags |-> mysqlUnsigned]) @@
    ("INT32" :> [typ |-> 3, flags |-> 0]) @@
    ("UINT32" :> [typ |-> 3, flags |-> mysqlUnsigned]) @@
    ("FLOAT32" :> [typ |-> 4, flags |-> 0]) @@
    ("FLOAT64" :> [typ |-> 5, flags |-> 0]) @@
    ("NULL_TYPE" :> [typ |-> 6, flags |-> mysqlBinary]) @@
    ("TIMESTAMP" :> [typ |-> 7, flags |-> 0]) @@
    ("INT64" :> [typ |-> 8, flags |-> 0]) @@
    ("UINT64" :> [typ |-> 8, flags |-> mysqlUnsigned]) @@
    ("INT24" :> [typ |-> 9, flags |-> 0]) @@
    ("UINT24" :> [typ |-> 9, flags |-> mysqlUnsigned]) @@
    ("DATE" :> [typ |-> 10, flags |-> mysqlBinary]) @@
    ("TIME" :> [typ |-> 11, flags |-> mysqlBinary]) @@
    ("DATETIME" :> [typ |-> 12, flags |-> mysqlBinary]) @@
    ("YEAR" :> [typ |-> 13, flags |-> mysqlUnsigned]) @@
    ("BIT" :> [typ |-> 16, flags |-> mysqlUnsigned]) @@
    ("VECTOR" :> [typ |-> 242, flags |-> 0]) @@
    ("JSON" :> [typ |-> 245, flags |-> 0]) @@
    ("DECIMAL" :> [typ |-> 246, flags |-> 0]) @@
    ("TEXT" :> [typ |-> 252, flags |-> 0]) @@
    ("BLOB" :> [typ |-> 252, flags |-> mysqlBinary]) @@
    ("BITNUM" :> [typ |-> 253, flags |-> mysqlBinary]) @@
    ("HEXNUM" :> [typ |-> 253, flags |-> mysqlBinary]) @@
    ("HEXVAL" :> [typ |-> 253, flags |-> mysqlBinary]) @@
    ("VARCHAR" :> [typ |-> 253, flags |-> 0]) @@
    ("VARBINARY" :> [typ |-> 253, flags |-> mysqlBinary]) @@
    ("CHAR" :> [typ |-> 254, flags |-> 0]) @@
    ("BINARY" :> [typ |-> 254, flags |-> mysqlBinary]) @@
    ("ENUM" :> [typ |-> 254, flags |-> mysqlEnum]) @@
    ("SET" :> [typ |-> 254, flags |-> mysqlSet]) @@
    ("GEOMETRY" :> [typ |-> 255, flags |-> 0])

\* A type without an entry reads the map's zero value.
TypeToMySQL_NoFlags(typ) ==
    IF typ \in DOMAIN typeToMySQL
    THEN [typ |-> typeToMySQL[typ].typ, flags |-> 0]
    ELSE [typ |-> 0, flags |-> 0]

TypeToMySQL(typ) ==
    IF typ \in DOMAIN typeToMySQL THEN typeToMySQL[typ]
    ELSE [typ |-> 0, flags |-> 0]

\* The inputs of the type conversion: every byte, and every combination of
\* the four flags the code reads with one it never reads (NOT_NULL = 1 of
\* the MySQL protocol).
Bytes == 0..255
FlagBits == <<1, mysqlUnsigned, mysqlBinary, mysqlEnum, mysqlSet>>

RECURSIVE FlagSum(_, _)
FlagSum(S, i) ==
    IF i > Len(FlagBits) THEN 0
    ELSE (IF i \in S THEN FlagBits[i] ELSE 0) + FlagSum(S, i + 1)

FlagValues == { FlagSum(S, 1) : S \in SUBSET (1..Len(FlagBits)) }

CallMySQLToType ==
    \E c \in Bytes, f \in FlagValues :
        /\ op = "init"
        /\ op' = "MySQLToType"
        /\ arg' = [mysqlType |-> c, flags |-> f]
        /\ res' = MySQLToType(c, f)

\* TypeToMySQL, and its result fed back into MySQLToType.
CallTypeToMySQL ==
    \E t \in Types :
        /\ op = "init"
        /\ op' = "TypeToMySQL"
        /\ arg' = [typ |-> t]
        /\ res' = [mysql |-> TypeToMySQL(t),
                   back |-> MySQLToType(TypeToMySQL(t).typ, TypeToMySQL(t).flags)]

NextTypes == CallMySQLToType \/ CallTypeToMySQL \/ Return

SpecTypes == Init /\ [][NextTypes]_vars

(***************************************************************************)
(* The classification predicates that compare the type itself.             *)
(***************************************************************************)

IsDecimal(t) == t = "DECIMAL"
IsDateOrTime(t) == t = "DATETIME" \/ t = "DATE" \/ t = "TIMESTAMP" \/ t = "TIME"
IsDate(t) == t = "DATETIME" \/ t = "DATE" \/ t = "TIMESTAMP"
IsNull(t) == t = "NULL_TYPE"
IsEnum(t) == t = "ENUM"
IsSet(t) == t = "SET"

Predicates == {"IsDecimal", "IsDateOrTime", "IsDate", "IsNull", "IsEnum",
               "IsSet"}

Classify(f, t) ==
    CASE f = "IsDecimal" -> IsDecimal(t)
      [] f = "IsDateOrTime" -> IsDateOrTime(t)
      [] f = "IsDate" -> IsDate(t)
      [] f = "IsNull" -> IsNull(t)
      [] f = "IsEnum" -> IsEnum(t)
      [] f = "IsSet" -> IsSet(t)

CallClassify ==
    /\ op = "init"
    /\ \E f \in Predicates, t \in Types :
          /\ op' = f
          /\ arg' = [typ |-> t]
          /\ res' = [holds |-> Classify(f, t)]

NextClassify == CallClassify \/ Return

SpecClassify == Init /\ [][NextClassify]_vars

(***************************************************************************)
(*                 pkg/sqltypes/parse_rows.go                              *)
(*                                                                         *)
(* A Value is a type and its bytes, a Row a sequence of Values; a nil      *)
(* slice and an empty one are both the empty sequence.                     *)
(***************************************************************************)

\* The least member of a non-empty set of numbers.
Least(S) == CHOOSE i \in S : \A j \in S : i <= j

\* querypb.Type_name: the spelling of every type.
TypeName ==
    (
       "NULL_TYPE" :> <<"N", "U", "L", "L", "_", "T", "Y", "P", "E">> @@
       "INT8" :> <<"I", "N", "T", "8">> @@
       "UINT8" :> <<"U", "I", "N", "T", "8">> @@
       "INT16" :> <<"I", "N", "T", "1", "6">> @@
       "UINT16" :> <<"U", "I", "N", "T", "1", "6">> @@
       "INT24" :> <<"I", "N", "T", "2", "4">> @@
       "UINT24" :> <<"U", "I", "N", "T", "2", "4">> @@
       "INT32" :> <<"I", "N", "T", "3", "2">> @@
       "UINT32" :> <<"U", "I", "N", "T", "3", "2">> @@
       "INT64" :> <<"I", "N", "T", "6", "4">> @@
       "UINT64" :> <<"U", "I", "N", "T", "6", "4">> @@
       "FLOAT32" :> <<"F", "L", "O", "A", "T", "3", "2">> @@
       "FLOAT64" :> <<"F", "L", "O", "A", "T", "6", "4">> @@
       "TIMESTAMP" :> <<"T", "I", "M", "E", "S", "T", "A", "M", "P">> @@
       "DATE" :> <<"D", "A", "T", "E">> @@
       "TIME" :> <<"T", "I", "M", "E">> @@
       "DATETIME" :> <<"D", "A", "T", "E", "T", "I", "M", "E">> @@
       "YEAR" :> <<"Y", "E", "A", "R">> @@
       "DECIMAL" :> <<"D", "E", "C", "I", "M", "A", "L">> @@
       "TEXT" :> <<"T", "E", "X", "T">> @@
       "BLOB" :> <<"B", "L", "O", "B">> @@
       "VARCHAR" :> <<"V", "A", "R", "C", "H", "A", "R">> @@
       "VARBINARY" :> <<"V", "A", "R", "B", "I", "N", "A", "R", "Y">> @@
       "CHAR" :> <<"C", "H", "A", "R">> @@
       "BINARY" :> <<"B", "I", "N", "A", "R", "Y">> @@
       "BIT" :> <<"B", "I", "T">> @@
       "ENUM" :> <<"E", "N", "U", "M">> @@
       "SET" :> <<"S", "E", "T">> @@
       "GEOMETRY" :> <<"G", "E", "O", "M", "E", "T", "R", "Y">> @@
       "JSON" :> <<"J", "S", "O", "N">> @@
       "EXPRESSION" :> <<"E", "X", "P", "R", "E", "S", "S", "I", "O", "N">> @@
       "HEXNUM" :> <<"H", "E", "X", "N", "U", "M">> @@
       "HEXVAL" :> <<"H", "E", "X", "V", "A", "L">> @@
       "TUPLE" :> <<"T", "U", "P", "L", "E">> @@
       "BITNUM" :> <<"B", "I", "T", "N", "U", "M">> @@
       "VECTOR" :> <<"V", "E", "C", "T", "O", "R">>
    )

\* querypb.Type_value[ident]
IsTypeName(ident) == \E t \in Types : TypeName[t] = ident
TypeValue(ident) == CHOOSE t \in Types : TypeName[t] = ident

NULL == [typ |-> "NULL_TYPE", val |-> <<>>]

\* MakeTrusted: a Value of the type NULL_TYPE is NULL.
MakeTrusted(typ, val) ==
    IF typ = "NULL_TYPE" THEN NULL ELSE [typ |-> typ, val |-> val]

\* The flag ISQUOTED of the types.
QuotedTypes == {"TIMESTAMP", "DATE", "TIME", "DATETIME", "TEXT", "BLOB",
                "VARCHAR", "VARBINARY", "CHAR", "BINARY", "BIT", "ENUM",
                "SET", "GEOMETRY", "JSON"}
IsQuoted(t) == t \in QuotedTypes /\ t # "BIT"

(***************************************************************************)
(* text/scanner with its default mode, on the bytes ParseRows reads here:  *)
(* letters, digits, spaces, quotes without escapes, and single characters. *)
(* A token is its kind and its text; a character that starts no longer     *)
(* token is a token of its own, of the kind "Char".                        *)
(***************************************************************************)

Letters == {"A", "B", "C", "D", "E", "F", "G", "H", "I", "J", "K", "L", "M",
            "N", "O", "P", "Q", "R", "S", "T", "U", "V", "W", "X", "Y", "Z",
            "a", "b", "c", "d", "e", "f", "g", "h", "i", "j", "k", "l", "m",
            "n", "o", "p", "q", "r", "s", "t", "u", "v", "w", "x", "y", "z",
            "_"}

\* The first position from i on (from 1) whose byte is not in the set, or
\* the position after the last byte.
runEnd(s, i, bytes) ==
    Least({j \in i .. (Len(s) + 1) : j = Len(s) + 1 \/ s[j] \notin bytes})

DigitSet == {"0", "1", "2", "3", "4", "5", "6", "7", "8", "9"}

\* The token that starts at position i, which holds no space, and the
\* position after it.
scanToken(s, i) ==
    LET c == s[i] IN
    IF c \in Letters
    THEN LET j == runEnd(s, i, Letters \cup DigitSet)
         IN [kind |-> "Ident", text |-> SubSeq(s, i, j - 1), next |-> j]
    ELSE IF c \in DigitSet
    THEN LET j == runEnd(s, i, DigitSet) IN
         IF j <= Len(s) /\ s[j] = "."
         THEN LET k == runEnd(s, j + 1, DigitSet)
              IN [kind |-> "Float", text |-> SubSeq(s, i, k - 1), next |-> k]
         ELSE [kind |-> "Int", text |-> SubSeq(s, i, j - 1), next |-> j]
    ELSE IF c = "\""
    THEN LET j == Least({k \in (i + 1) .. (Len(s) + 1) :
                            k = Len(s) + 1 \/ s[k] = "\""})
             stop == IF j > Len(s) THEN j ELSE j + 1
         IN [kind |-> "String", text |-> SubSeq(s, i, stop - 1),
             next |-> stop]
    ELSE IF c = "." /\ i < Len(s) /\ s[i + 1] \in DigitSet
    THEN LET k == runEnd(s, i + 1, DigitSet)
         IN [kind |-> "Float", text |-> SubSeq(s, i, k - 1), next |-> k]
    ELSE [kind |-> "Char", text |-> <<c>>, next |-> i + 1]

Unquote_Unterminated(literal) ==
    [text |-> SubSeq(literal, 2, Len(literal)), err |-> "nil"]

\* strconv.Unquote of a string token without escapes.
Unquote(literal) ==
    IF Len(literal) >= 2 /\ literal[1] = "\""
           /\ literal[Len(literal)] = "\""
    THEN [text |-> SubSeq(literal, 2, Len(literal) - 1), err |-> "nil"]
    ELSE [text |-> <<>>, err |-> "invalid syntax"]

RowsError(msg) == [rows |-> <<>>, err |-> msg]

\* The loop of ParseRows from position i of the input, in state st.
RECURSIVE parseRowsLoop(_, _, _, _, _, _)
parseRowsLoop(input, i, st, result, row, vtype) ==
    LET at == runEnd(input, i, {" ", "\t", "\n", "\r"}) IN
    IF at > Len(input) THEN RowsError("unexpected EOF")
    ELSE
    LET tok == scanToken(input, at)
        is(c) == tok.kind = "Char" /\ tok.text = <<c>>
        go(next) == parseRowsLoop(input, tok.next, next, result, row, vtype)
        unexpected == RowsError("unexpected token")
    IN
    CASE st = "stInit" -> IF is("[") THEN go("stBeginRow") ELSE unexpected
      [] st = "stBeginRow" ->
            IF is("[") THEN go("stInRow")
            ELSE IF is("]") THEN [rows |-> result, err |-> "nil"]
            ELSE unexpected
      [] st = "stInRow" ->
            IF is("]")
            THEN parseRowsLoop(input, tok.next, "stBeginRow",
                               Append(result, row), <<>>, vtype)
            ELSE IF tok.kind = "Ident"
            THEN IF tok.text = <<"N", "U", "L", "L">>
                 THEN parseRowsLoop(input, tok.next, st, result,
                                    Append(row, NULL), vtype)
                 ELSE IF ~IsTypeName(tok.text)
                 THEN RowsError("unknown SQL type")
                 ELSE parseRowsLoop(input, tok.next, "stInValue0", result,
                                    row, TypeValue(tok.text))
            ELSE unexpected
      [] st = "stInValue0" -> IF is("(") THEN go("stInValue1") ELSE unexpected
      [] st = "stInValue1" ->
            IF tok.kind = "String"
            THEN IF Unquote(tok.text).err # "nil"
                 THEN RowsError("failed to parse literal string")
                 ELSE parseRowsLoop(input, tok.next, "stInValue2", result,
                          Append(row, MakeTrusted(vtype,
                                                  Unquote(tok.text).text)),
                          vtype)
            ELSE IF tok.kind \in {"Int", "Float"}
            THEN parseRowsLoop(input, tok.next, "stInValue2", result,
                               Append(row, MakeTrusted(vtype, tok.text)),
                               vtype)
            ELSE unexpected
      [] st = "stInValue2" -> IF is(")") THEN go("stInRow") ELSE unexpected

ParseRows(input) ==
    parseRowsLoop(input, 1, "stInit", <<>>, <<>>, "NULL_TYPE")

(***************************************************************************)
(* The printed form of rows, fmt.Sprintf("%v", rows): the values of a row  *)
(* and the rows of a list between brackets, separated by a space; a value  *)
(* as TYPE(bytes), the bytes quoted for a quoted type, and NULL for NULL.  *)
(***************************************************************************)

ValueString(v) ==
    IF v.typ = "NULL_TYPE" THEN <<"N", "U", "L", "L">>
    ELSE IF IsQuoted(v.typ) \/ v.typ = "BIT"
    THEN TypeName[v.typ] \o <<"(", "\"">> \o v.val \o <<"\"", ")">>
    ELSE TypeName[v.typ] \o <<"(">> \o v.val \o <<")">>

RECURSIVE JoinWithSpace(_)
JoinWithSpace(parts) ==
    IF parts = <<>> THEN <<>>
    ELSE IF Len(parts) = 1 THEN parts[1]
    ELSE parts[1] \o <<" ">> \o JoinWithSpace(Tail(parts))

RowString(row) ==
    <<"[">> \o JoinWithSpace([k \in 1 .. Len(row) |-> ValueString(row[k])])
            \o <<"]">>

RowsString(rows) ==
    <<"[">> \o JoinWithSpace([k \in 1 .. Len(rows) |-> RowString(rows[k])])
            \o <<"]">>

\* The values, rows and lists of rows that are printed and parsed.
RowValues ==
    {NULL,
     [typ |-> "INT64", val |-> <<"1">>],
     [typ |-> "INT64", val |-> <<"-", "1">>],
     [typ |-> "UINT64", val |-> <<"1", "2">>],
     [typ |-> "FLOAT64", val |-> <<"1", ".", "5">>],
     [typ |-> "VARCHAR", val |-> <<"a", " ", "b">>],
     [typ |-> "VARBINARY", val |-> <<>>]}

Rows == {<<>>} \cup {<<v>> : v \in RowValues}
            \cup {<<v, w>> : v \in RowValues, w \in RowValues}

RowLists == {<<>>} \cup {<<r>> : r \in Rows}
                \cup {<<r, q>> : r \in Rows, q \in Rows}

CallParseRows ==
    /\ op = "init"
    /\ \E rows \in RowLists :
          /\ op' = "ParseRows"
          /\ arg' = [rows |-> rows, input |-> RowsString(rows)]
          /\ res' = ParseRows(RowsString(rows))

\* The texts ParseRows is called with besides the printed rows: of a few
\* printed lists, every prefix, and every text with one byte replaced.
PrintedLists ==
    {RowsString(<<>>),
     RowsString(<<<<>>>>),
     RowsString(<<<<[typ |-> "INT64", val |-> <<"1">>]>>>>),
     RowsString(<<<<NULL, [typ |-> "VARCHAR", val |-> <<"a", " ", "b">>]>>>>),
     RowsString(<<<<[typ |-> "FLOAT64", val |-> <<"1", ".", "5">>]>>, <<>>>>),
     RowsString(<<<<[typ |-> "VARBINARY", val |-> <<>>]>>,
                  <<[typ |-> "UINT64", val |-> <<"1", "2">>]>>>>)}

ReplacingBytes == {"[", "]", "(", ")", " ", "x", "\"", "1", "-", ","}

RowsTexts ==
    UNION {{SubSeq(text, 1, k) : k \in 0 .. Len(text)} :
              text \in PrintedLists}
    \cup UNION {{[text EXCEPT ![k] = c] :
                    k \in 1 .. Len(text), c \in ReplacingBytes} :
                 text \in PrintedLists}

CallParseRowsOfText ==
    /\ op = "init"
    /\ \E input \in RowsTexts :
          /\ op' = "ParseRowsOfText"
          /\ arg' = [input |-> input]
          /\ res' = ParseRows(input)

NextRows == CallParseRows \/ CallParseRowsOfText \/ Return

SpecRows == Init /\ [][NextRows]_vars

(***************************************************************************)
(* RowEqual and RowsEquals.  The error returned is nil, a RowMismatchError *)
(* or a plain error.                                                       *)
(***************************************************************************)

\* Value.Equal: the same type and the same bytes.
ValueEqual(a, b) == a.typ = b.typ /\ a.val = b.val

\* slices.EqualFunc with Value.Equal
RowEqual(want, got) ==
    /\ Len(want) = Len(got)
    /\ \A k \in 1 .. Len(want) : ValueEqual(want[k], got[k])

firstMatch_AmongAll(aa, got, matched) ==
    IF \E i \in 1 .. Len(got) : RowEqual(aa, got[i])
    THEN Least({i \in 1 .. Len(got) : RowEqual(aa, got[i])})
    ELSE 0

\* The inner loop: the first row of got that is not matched yet and equals
\* aa, 0 if there is none.
firstMatch(aa, got, matched) ==
    IF \E i \in 1 .. Len(got) : ~matched[i] /\ RowEqual(aa, got[i])
    THEN Least({i \in 1 .. Len(got) : ~matched[i] /\ RowEqual(aa, got[i])})
    ELSE 0

\* The outer loop from the k-th row of want on, and the loop over matched.
RECURSIVE matchLoop(_, _, _, _)
matchLoop(want, got, k, matched) ==
    IF k > Len(want)
    THEN IF \E i \in 1 .. Len(matched) : ~matched[i] THEN "error" ELSE "nil"
    ELSE LET i == firstMatch(want[k], got, matched) IN
         IF i = 0 THEN "RowMismatchError"
         ELSE matchLoop(want, got, k + 1, [matched EXCEPT ![i] = TRUE])

RowsEquals(want, got) ==
    IF Len(want) # Len(got) THEN "RowMismatchError"
    ELSE matchLoop(want, got, 1, [i \in 1 .. Len(want) |-> FALSE])

\* The lists compared: up to three rows, with repeated and empty rows.
ComparedRows ==
    {<<>>,
     <<[typ |-> "INT64", val |-> <<"1">>]>>,
     <<[typ |-> "INT64", val |-> <<"1">>], NULL>>}

ComparedLists ==
    {<<>>} \cup {<<r>> : r \in ComparedRows}
           \cup {<<r, q>> : r \in ComparedRows, q \in ComparedRows}
           \cup {<<r, q, p>> :
                    r \in ComparedRows, q \in ComparedRows,
                    p \in ComparedRows}

CallRowsEquals ==
    /\ op = "init"
    /\ \E want \in ComparedLists, got \in ComparedLists :
          /\ op' = "RowsEquals"
          /\ arg' = [want |-> want, got |-> got]
          /\ res' = [err |-> RowsEquals(want, got)]

NextEquals == CallRowsEquals \/ Return

SpecEquals == Init /\ [][NextEquals]_vars

(***************************************************************************)
(*                 pkg/sqltypes/proto3.go                                  *)
(*                                                                         *)
(* A slice is its elements and whether it is nil; a querypb.Row holds the  *)
(* slices Lengths and Values.                                              *)
(***************************************************************************)

NilSlice == [nil |-> TRUE, elems |-> <<>>]
SliceOf(elems) == [nil |-> FALSE, elems |-> elems]

\* Value.IsNull, Value.Len and Value.Raw
ValueIsNull(c) == c.typ = "NULL_TYPE"
ValueLen(c) == Len(c.val)
ValueRaw(c) == c.val

appendLength_NullAsEmpty(lengths, c) ==
    IF ValueIsNull(c) THEN Append(lengths, 0)
    ELSE Append(lengths, ValueLen(c))

\* The first loop of RowToProto3Inplace on one value.
appendLength(lengths, c) ==
    IF ValueIsNull(c) THEN Append(lengths, -1)
    ELSE Append(lengths, ValueLen(c))

\* The first loop over the values from the k-th on.
RECURSIVE lengthsLoop(_, _, _, _)
lengthsLoop(row, k, lengths, total) ==
    IF k > Len(row) THEN [Lengths |-> lengths, total |-> total]
    ELSE lengthsLoop(row, k + 1, appendLength(lengths, row[k]),
                     IF ValueIsNull(row[k]) THEN total
                     ELSE total + ValueLen(row[k]))

\* The second loop over the values from the k-th on.
RECURSIVE valuesLoop(_, _, _)
valuesLoop(row, k, values) ==
    IF k > Len(row) THEN values
    ELSE valuesLoop(row, k + 1,
                    IF ValueIsNull(row[k]) THEN values
                    ELSE values \o ValueRaw(row[k]))

\* result.Lengths[:0] and result.Values[:0], or a new slice for a nil one.
Truncated(slice) == IF slice.nil THEN <<>> ELSE SubSeq(slice.elems, 1, 0)

RowToProto3Inplace(row, result) ==
    LET first == lengthsLoop(row, 1, Truncated(result.Lengths), 0)
    IN [result |-> [Lengths |-> SliceOf(first.Lengths),
                    Values |-> SliceOf(valuesLoop(row, 1,
                                                  Truncated(result.Values)))],
        total |-> first.total]

RowToProto3(row) ==
    RowToProto3Inplace(row, [Lengths |-> NilSlice, Values |-> NilSlice])

\* The rows converted and the previous contents of the result.
ProtoValues ==
    {NULL,
     [typ |-> "INT64", val |-> <<"1">>],
     [typ |-> "INT64", val |-> <<"-", "1", "2">>],
     [typ |-> "VARCHAR", val |-> <<>>],
     [typ |-> "VARCHAR", val |-> <<"a", "b">>]}

ProtoRows ==
    {<<>>} \cup {<<v>> : v \in ProtoValues}
           \cup {<<v, w>> : v \in ProtoValues, w \in ProtoValues}
           \cup {<<v, w, x>> :
                    v \in ProtoValues, w \in ProtoValues, x \in ProtoValues}

ProtoResults ==
    {[Lengths |-> l, Values |-> v] :
        l \in {NilSlice, SliceOf(<<>>), SliceOf(<<-1, 2>>)},
        v \in {NilSlice, SliceOf(<<>>), SliceOf(<<"z", "z", "z">>)}}

CallRowToProto3Inplace ==
    /\ op = "init"
    /\ \E row \in ProtoRows, result \in ProtoResults :
          /\ op' = "RowToProto3Inplace"
          /\ arg' = [row |-> row, result |-> result]
          /\ res' = RowToProto3Inplace(row, result)

CallRowToProto3 ==
    /\ op = "init"
    /\ \E row \in ProtoRows :
          /\ op' = "RowToProto3"
          /\ arg' = [row |-> row,
                     result |-> [Lengths |-> NilSlice, Values |-> NilSlice]]
          /\ res' = RowToProto3(row)

NextProto == CallRowToProto3Inplace \/ CallRowToProto3 \/ Return

SpecProto == Init /\ [][NextProto]_vars

(***************************************************************************)
(*                   pkg/mysql/decimal/scan.go                             *)
(*                                                                         *)
(* A byte is a one-character string, a []byte a sequence of them.  A       *)
(* uint64 and the magnitude of a big.Int are sequences of decimal digits   *)
(* without leading zeroes (the empty sequence is 0), so that no number of  *)
(* the scanner is cut to the width of the checker's integers.              *)
(***************************************************************************)

DigitChars == <<"0", "1", "2", "3", "4", "5", "6", "7", "8", "9">>

\* '0' <= c && c <= '9'
IsDigit(c) == \E k \in 1..10 : DigitChars[k] = c

\* c - '0'
DigitVal(c) == (CHOOSE k \in 1..10 : DigitChars[k] = c) - 1

\* n*10 + d on digit sequences.
MulAdd10(n, d) == IF n = <<>> /\ d = 0 THEN <<>> ELSE Append(n, d)

RECURSIVE LexLess(_, _, _)
LexLess(a, b, i) ==
    IF i > Len(a) THEN FALSE
    ELSE IF a[i] # b[i] THEN a[i] < b[i]
    ELSE LexLess(a, b, i + 1)

\* a < b on digit sequences without leading zeroes.
NatLess(a, b) ==
    IF Len(a) # Len(b) THEN Len(a) < Len(b) ELSE LexLess(a, b, 1)

\* math.MaxUint64 = 18446744073709551615, and cutoff = math.MaxUint64/10 + 1.
MaxUint64 == <<1, 8, 4, 4, 6, 7, 4, 4, 0, 7, 3, 7, 0, 9, 5, 5, 1, 6, 1, 5>>
cutoff == <<1, 8, 4, 4, 6, 7, 4, 4, 0, 7, 3, 7, 0, 9, 5, 5, 1, 6, 2>>

\* big.Int: a sign and a magnitude; Neg never makes a negative zero.
BigInt(neg, abs) == [neg |-> neg /\ abs # <<>>, abs |-> abs]
BigNeg(v) == [neg |-> ~v.neg /\ v.abs # <<>>, abs |-> v.abs]

\* Decimal{}: the zero value that goes with an error.
NilDecimal == [value |-> "nil", exp |-> 0]

DecErr(msg) == [dec |-> NilDecimal, err |-> msg]

\* The loop of parseDecimal64 from byte i (1-based here; dot is the 0-based
\* index of the source, -1 when no '.' was seen).
RECURSIVE parseDecimal64Loop(_, _, _, _)
parseDecimal64Loop(s, i, n, dot) ==
    IF i > Len(s)
    THEN [dec |-> [value |-> BigInt(FALSE, n),
                   exp |-> IF dot # -1 THEN -(Len(s) - dot - 1) ELSE 0],
          err |-> "nil"]
    ELSE
        IF s[i] = "."
        THEN IF dot > -1 THEN DecErr("too many .s")
             ELSE parseDecimal64Loop(s, i + 1, n, i - 1)
        ELSE IF IsDigit(s[i])
        THEN IF ~NatLess(n, cutoff) THEN DecErr("overflow")
             ELSE LET n1 == MulAdd10(n, DigitVal(s[i])) IN
                  \* n1 < n: the addition wrapped around 2^64
                  IF NatLess(MaxUint64, n1) THEN DecErr("overflow")
                  ELSE parseDecimal64Loop(s, i + 1, n1, dot)
        ELSE DecErr("unexpected character")

parseDecimal64(s) == parseDecimal64Loop(s, 1, <<>>, -1)

\* bytes.IndexByte: the 0-based index of the first c in s, or -1.
IndexByte(s, c) ==
    IF \E i \in 1..Len(s) : s[i] = c
    THEN (CHOOSE i \in 1..Len(s) :
              s[i] = c /\ \A j \in 1..(i - 1) : s[j] # c) - 1
    ELSE -1

\* s[from:], with a 0-based from.
SliceFrom(s, from) == SubSeq(s, from + 1, Len(s))
\* s[:to], with a 0-based exclusive to.
SliceTo(s, to) == SubSeq(s, 1, to)

myBaseDigits == 9
MyMaxBigDigits == 9
MyMaxPrecision == 65

\* The number of 9-digit "mysql digits" that hold the given decimal digits.
myBigDigits(digits) == (digits + myBaseDigits - 1) \div myBaseDigits

\* The largest value of the precision: prec nines, frac of them fractional.
largestForm(prec, frac, neg) ==
    [value |-> BigInt(neg, [i \in 1..prec |-> 9]), exp |-> -frac]

\* The digits of a byte string, in order, as numbers.
DigitsOf(partial) ==
    LET ds == SelectSeq(partial, IsDigit) IN
    [i \in 1..Len(ds) |-> DigitVal(ds[i])]

\* A digit sequence as a number: without its leading zeroes.
Normalize(ds) ==
    IF \A i \in 1..Len(ds) : ds[i] = 0 THEN <<>>
    ELSE SubSeq(ds, CHOOSE k \in 1..Len(ds) :
                        ds[k] # 0 /\ \A j \in 1..(k - 1) : ds[j] = 0,
                Len(ds))

\* parseChunk: '.' is skipped, a digit is collected, and the first other
\* byte ends the scan with an error.  The source collects the digits into
\* words of n digits (di, flushed by z = z*bn + di); z is kept here as the
\* number that the digits collected so far spell.
parseChunk(partial, z) ==
    IF \E i \in 1..Len(partial) : partial[i] # "." /\ ~IsDigit(partial[i])
    THEN [z |-> z, err |-> "unexpected character"]
    ELSE [z |-> Normalize(z \o DigitsOf(partial)), err |-> "nil"]

parseLargeDecimal(integral, fractional) ==
    LET a == parseChunk(integral, <<>>) IN
    IF a.err # "nil" THEN [value |-> "nil", err |-> a.err]
    ELSE LET b == parseChunk(fractional, a.z) IN
         IF b.err # "nil" THEN [value |-> "nil", err |-> b.err]
         ELSE [value |-> BigInt(FALSE, b.z), err |-> "nil"]

\* NewFromMySQL after the sign is taken off and the empty input refused.
NewFromMySQLLarge(s, neg) ==
    LET pIndex == IndexByte(s, ".")
        integral == IF pIndex >= 0 THEN SliceTo(s, pIndex) ELSE s
        fractional ==
            IF pIndex >= 0 /\ pIndex + 1 < Len(s)
            THEN SliceFrom(s, pIndex + 1) ELSE <<>>
        myintg == myBigDigits(Len(integral))
        myfrac == myBigDigits(Len(fractional))
        kept ==
            IF myintg + myfrac > MyMaxBigDigits
            THEN SliceTo(fractional, (MyMaxBigDigits - myintg) * 9)
            ELSE fractional
        parsed == parseLargeDecimal(integral, kept)
    IN
    IF pIndex >= 0 /\ IndexByte(SliceFrom(s, pIndex + 1), ".") # -1
    THEN DecErr("too many .s")
    ELSE IF myintg > MyMaxBigDigits
    THEN [dec |-> largestForm(MyMaxPrecision, 0, neg), err |-> "nil"]
    ELSE IF parsed.err # "nil" THEN DecErr(parsed.err)
    ELSE [dec |-> [value |-> IF neg THEN BigNeg(parsed.value)
                             ELSE parsed.value,
                   exp |-> -Len(kept)],
          err |-> "nil"]

NewFromMySQL(original) ==
    LET signed == Len(original) > 0 /\ original[1] \in {"+", "-"}
        neg == Len(original) > 0 /\ original[1] = "-"
        s == IF signed THEN Tail(original) ELSE original
        small == parseDecimal64(s)
    IN
    IF Len(s) = 0 THEN DecErr("too short")
    ELSE IF Len(s) <= 18 /\ small.err = "nil"
    THEN [dec |-> [value |-> IF neg THEN BigNeg(small.dec.value)
                             ELSE small.dec.value,
                   exp |-> small.dec.exp],
          err |-> "nil"]
    ELSE IF Len(s) <= 18 /\ small.err # "overflow"
    THEN DecErr(small.err)
    ELSE NewFromMySQLLarge(s, neg)

\* The inputs of the scanner: an optional sign, an integral part and a
\* fractional part of the lengths below, filled with nines or with the
\* digits 1234567890 in a cycle, with or without a '.', and with one byte
\* replaced by a letter or by a second '.'.
IntegralLengths == {0, 1, 9, 17, 18, 19, 54, 55, 64, 65, 66, 72, 73, 81, 82, 83}
FractionalLengths == {0, 1, 9, 17, 18, 27, 30, 31, 36, 45, 72, 73}
Fills == {"nines", "cycle"}
Signs == {<<>>, <<"+">>, <<"-">>}

FillDigit(fill, i) ==
    IF fill = "nines" THEN "9" ELSE DigitChars[(i % 10) + 1]

DecimalText(sign, il, dot, fl, fill) ==
    sign \o [i \in 1..il |-> FillDigit(fill, i)]
         \o (IF dot THEN <<".">> ELSE <<>>)
         \o [i \in 1..fl |-> FillDigit(fill, il + i)]

WellFormedTexts ==
    { DecimalText(sign, il, dot, fl, fill) :
        sign \in Signs, il \in IntegralLengths, dot \in BOOLEAN,
        fl \in {f \in FractionalLengths : f = 0}, fill \in Fills }
    \cup
    { DecimalText(sign, il, TRUE, fl, fill) :
        sign \in Signs, il \in IntegralLengths,
        fl \in FractionalLengths, fill \in Fills }

\* One byte of a text replaced: the first, the middle or the last.
Corrupt(t, p, c) == [t EXCEPT ![p] = c]

CorruptTexts ==
    UNION { { Corrupt(t, p, c) :
                p \in {1, (Len(t) + 1) \div 2, Len(t)}, c \in {"x", "."} } :
            t \in {w \in WellFormedTexts : Len(w) > 0} }

DecimalTexts == WellFormedTexts \cup CorruptTexts

CallNewFromMySQL ==
    \E s \in DecimalTexts :
        /\ op = "init"
        /\ op' = "NewFromMySQL"
        /\ arg' = [s |-> s]
        /\ res' = NewFromMySQL(s)

NextDecimal == CallNewFromMySQL \/ Return

SpecDecimal == Init /\ [][NextDecimal]_vars

(***************************************************************************)
(* NewFromString.  Positions are those of the source, from 0; the byte at  *)
(* position k of s is s[k + 1].                                            *)
(***************************************************************************)

ExponentLimit == 1024

isSpace(c) == c \in {" ", "\t", "\n", "\r"}

\* The position the loop over spaces stops at, from position i.
skipSpaces(s, i) ==
    Least({j \in i .. Len(s) : j = Len(s) \/ ~isSpace(s[j + 1])})

\* The position of the first of the bytes before position k, -1 if none:
\* dotPos and expPos when the scan is at k.
seenAt(s, bytes, k) ==
    IF \E j \in 0 .. (k - 1) : s[j + 1] \in bytes
    THEN Least({j \in 0 .. (k - 1) : s[j + 1] \in bytes})
    ELSE -1

\* The switch of the scan does not leave the loop at position k.
scanAccepts(s, k) ==
    LET c == s[k + 1]
        dotPos == seenAt(s, {"."}, k)
        expPos == seenAt(s, {"e", "E"}, k)
    IN IF c = "-" THEN ~(k # 0 /\ expPos = -1 /\ k # expPos + 1)
       ELSE IF IsDigit(c) THEN TRUE
       ELSE IF c = "." THEN dotPos = -1 /\ expPos = -1
       ELSE IF c \in {"e", "E"} THEN expPos = -1
       ELSE FALSE

\* The position the scan stops at, from position start.
scanEnd(s, start) ==
    Least({i \in start .. Len(s) : i = Len(s) \/ ~scanAccepts(s, i)})

\* s[a:b]
Slice(s, a, b) == SubSeq(s, a + 1, b)

\* fastparse.ParseInt64 on spaces, an optional '-' and digits: the number
\* of the leading digits, and an error unless they are all there is.  The
\* number is a sign and a sequence of digits.
ParseInt64(str) ==
    LET start == skipSpaces(str, 0)
        minus == start < Len(str) /\ str[start + 1] = "-"
        from == IF minus THEN start + 1 ELSE start
        to == Least({j \in from .. Len(str) :
                        j = Len(str) \/ ~IsDigit(str[j + 1])})
        tail == skipSpaces(str, to)
    IN [value |-> BigInt(minus, Normalize(DigitsOf(Slice(str, from, to)))),
        err |-> IF to > from /\ tail = Len(str) THEN "nil"
                ELSE "cannot parse int64"]

\* big.Int.SetString(si, 10): the number of an optional sign and digits.
\* For any other text the library leaves the value undefined; its
\* implementation leaves 0.
SetString(str) ==
    LET signed == Len(str) > 0 /\ str[1] \in {"+", "-"}
        digits == IF signed THEN Tail(str) ELSE str
    IN IF Len(digits) > 0 /\ \A k \in 1 .. Len(digits) : IsDigit(digits[k])
       THEN BigInt(signed /\ str[1] = "-", Normalize(DigitsOf(digits)))
       ELSE BigInt(FALSE, <<>>)

RECURSIVE DigitsToInt(_)
DigitsToInt(digits) ==
    IF digits = <<>> THEN 0
    ELSE 10 * DigitsToInt(SubSeq(digits, 1, Len(digits) - 1))
             + digits[Len(digits)]

\* The exponent after its switch: a number of more digits than the limit
\* has is beyond the limit.
clampExponent(e) ==
    LET big == Len(e.abs) > 4
        n == IF big THEN ExponentLimit + 1 ELSE DigitsToInt(e.abs)
    IN IF n > ExponentLimit
       THEN [e |-> IF e.neg THEN -ExponentLimit ELSE ExponentLimit,
             expOverflow |-> TRUE]
       ELSE [e |-> IF e.neg THEN -n ELSE n, expOverflow |-> FALSE]

siOf_Capped(s, i, dotPos, expPos) ==
    LET to == IF expPos = -1 THEN i ELSE expPos
        si == IF dotPos = -1 THEN Slice(s, 0, to)
              ELSE Slice(s, 0, dotPos) \o Slice(s, dotPos + 1, to)
    IN SubSeq(si, 1, IF Len(si) > MyMaxPrecision THEN MyMaxPrecision
                     ELSE Len(si))

\* si: the text of the number without its '.' and its exponent.
siOf(s, i, dotPos, expPos) ==
    IF dotPos = -1 /\ expPos = -1 THEN Slice(s, 0, i)
    ELSE IF expPos = -1 THEN Slice(s, 0, dotPos) \o Slice(s, dotPos + 1, i)
    ELSE IF dotPos = -1 THEN Slice(s, 0, expPos)
    ELSE Slice(s, 0, dotPos) \o Slice(s, dotPos + 1, expPos)

NewFromString(s) ==
    LET maxLen == Len(s)
        start == skipSpaces(s, 0)
        i == scanEnd(s, start)
        dotPos == seenAt(s, {"."}, i)
        expPos == seenAt(s, {"e", "E"}, i)
        \* num: a digit was the last of the digits and 'e's read
        num == \E k \in start .. (i - 1) : IsDigit(s[k + 1]) /\ k > expPos
        si == siOf(s, i, dotPos, expPos)
        fraction == IF dotPos = -1 THEN 0
                    ELSE IF expPos = -1 THEN i - dotPos - 1
                    ELSE expPos - dotPos - 1
        small == ParseInt64(si)
        value == IF Len(si) <= 18 THEN small.value ELSE SetString(si)
        err0 == IF Len(si) <= 18 THEN small.err ELSE "nil"
        e == IF expPos # -1
             THEN clampExponent(ParseInt64(Slice(s, expPos + 1, i)).value)
             ELSE [e |-> 0, expOverflow |-> FALSE]
        end == skipSpaces(s, i)
    IN [dec |-> [value |-> value, exp |-> e.e - fraction],
        err |-> IF ~num \/ end < maxLen \/ e.expOverflow
                THEN "invalid decimal string" ELSE err0]

(***************************************************************************)
(* The texts NewFromString is called with: digits of the lengths below,    *)
(* with and without a sign and a '.', and texts with spaces, exponents and *)
(* signs in every place.                                                   *)
(***************************************************************************)

StringIntegralLengths == {0, 1, 2, 17, 18, 19, 40, 65, 66, 70}
StringFractionalLengths == {0, 1, 5, 18, 19, 40}

StringTexts ==
    { DecimalText(sign, il, FALSE, 0, fill) :
        sign \in {<<>>, <<"-">>}, il \in StringIntegralLengths,
        fill \in Fills }
    \cup
    { DecimalText(sign, il, TRUE, fl, fill) :
        sign \in {<<>>, <<"-">>}, il \in StringIntegralLengths,
        fl \in StringFractionalLengths, fill \in Fills }
    \cup
    {<<"1", ".", "4", "7", "0", "0", "0">>,
     <<"-", "1", "2", "3", ".", "4", "5">>,
     <<".", "0", "0", "0", "1">>,
     <<"0", "0", "7">>,
     <<"-", "0">>,
     <<>>,
     <<"-">>,
     <<".">>,
     <<"1", "e", "5">>,
     <<"1", "e", "-", "5">>,
     <<"1", ".", "5", "e", "3">>,
     <<"1", "E", "2">>,
     <<"1", "e", "5", "-", "3">>,
     <<"1", "-", "2">>,
     <<" ", "-", "1">>,
     <<" ", "1">>,
     <<"1", " ">>,
     <<" ", "1", " ">>,
     <<"1", "e">>,
     <<"e", "5">>,
     <<"1", "e", "1", "0", "2", "4">>,
     <<"1", "e", "1", "0", "2", "5">>,
     <<"1", "e", "-", "1", "0", "2", "5">>,
     <<"1", "+", "2">>,
     <<"a", "b", "c">>,
     <<"1", ".", ".", "2">>,
     <<"1", "e", "5", "e", "5">>,
     <<"-", "-", "1">>,
     <<"1", "e", "-", "-", "5">>,
     <<"1", ".", "e", "1">>,
     <<"-", ".", "5">>,
     <<"1", " ", "2">>}

CallNewFromString ==
    /\ op = "init"
    /\ \E s \in StringTexts :
          /\ op' = "NewFromString"
          /\ arg' = [s |-> s]
          /\ res' = NewFromString(s)

NextString == CallNewFromString \/ Return

SpecString == Init /\ [][NextString]_vars

(***************************************************************************)
(*                 pkg/mysql/datetime/datetime.go                          *)
(*                                                                         *)
(* A time.Duration is a record [s, n] that stands for s seconds plus n     *)
(* nanoseconds, 0 <= n < 10^9, so that a count of nanoseconds is never cut *)
(* to the width of the checker's integers.  Go's / and % truncate toward   *)
(* zero; they are computed on the magnitude and given the sign back.       *)
(***************************************************************************)

negMask == 32768
NanosPerSecond == 1000000000
SecondsPerMinute == 60
SecondsPerHour == 3600
SecondsPerDay == 86400

Uint8(x) == x % 256
Uint16(x) == x % 65536

\* Go's integer division, which truncates toward zero (b > 0).
Quo(a, b) == IF a >= 0 THEN a \div b ELSE -((-a) \div b)

Dur(secs, nanos) ==
    [s |-> secs + (nanos \div NanosPerSecond), n |-> nanos % NanosPerSecond]
DurAdd(a, b) == Dur(a.s + b.s, a.n + b.n)
DurNegate(a) == Dur(-a.s, -a.n)
DurIsNegative(a) == a.s < 0
DurAbs(a) == IF DurIsNegative(a) THEN DurNegate(a) ELSE a
DurSign(a) == IF DurIsNegative(a) THEN -1 ELSE 1
\* dur / (k * time.Second)
DurQuo(a, k) == DurSign(a) * (DurAbs(a).s \div k)
\* (dur % (k * time.Second)) / (j * time.Second)
DurRemQuo(a, k, j) == DurSign(a) * ((DurAbs(a).s % k) \div j)
\* (dur % time.Second) / time.Nanosecond
DurRemNanos(a) == DurSign(a) * DurAbs(a).n

ZeroDate == [year |-> 0, month |-> 0, day |-> 0]
ZeroTime == [hour |-> 0, minute |-> 0, second |-> 0, nanosecond |-> 0]

\* Time.Hour and Time.Neg: the sign is the high bit of the hour field.
TimeHour(t) == t.hour % negMask
TimeNeg(t) == t.hour >= negMask

DateIsZero(d) == d.year = 0 /\ d.month = 0 /\ d.day = 0

\* Time.toDuration reads the hour field as it is stored.
TimeToDuration(t) ==
    LET dur == Dur(t.hour * SecondsPerHour + t.minute * SecondsPerMinute
                       + t.second,
                   t.nanosecond)
    IN IF TimeNeg(t) THEN DurNegate(dur) ELSE dur

DateTimeToDuration(dt) ==
    IF ~DateIsZero(dt.Date)
    THEN DurAdd(TimeToDuration(dt.Time),
                Dur((dt.Date.day - 1) * SecondsPerDay, 0))
    ELSE TimeToDuration(dt.Time)

isLeap(year) == year % 4 = 0 /\ (year % 100 # 0 \/ year % 400 = 0)

daysIn(month, year) ==
    IF month = 2 THEN (IF isLeap(year) THEN 29 ELSE 28)
    ELSE IF month \in {4, 6, 9, 11} THEN 30 ELSE 31

maxDay == 3652424

\* MySQL's day number of a date (calc_daynr).
MysqlDayNumber(year, month, day) ==
    IF year = 0 /\ month = 0 THEN 0
    ELSE LET days == 365 * year + 31 * (month - 1) + day
             y == IF month <= 2 THEN year - 1 ELSE year
             d == IF month <= 2 THEN days
                  ELSE days - Quo(month * 4 + 23, 10)
             leapAdjust == Quo((Quo(y, 100) + 1) * 3, 4)
         IN d + Quo(y, 4) - leapAdjust

\* MySQL's days of a year (calc_days_in_year): year 0 is no leap year.
daysInYear(year) == IF isLeap(year) /\ year # 0 THEN 366 ELSE 365

RECURSIVE monthAndDay(_, _, _)
monthAndDay(year, month, yday) ==
    LET dim == IF month = 2 THEN (IF daysInYear(year) = 366 THEN 29 ELSE 28)
               ELSE daysIn(month, year)
    IN IF yday > dim /\ month < 12
       THEN monthAndDay(year, month + 1, yday - dim)
       ELSE [year |-> Uint16(year), month |-> Uint8(month),
             day |-> Uint8(yday)]

\* The date of a MySQL day number (get_date_from_daynr); 0000-00-00 for a
\* number outside its table.
mysqlDateFromDayNumber(daynr) ==
    IF daynr <= 365 \/ daynr >= 3652500 THEN ZeroDate
    ELSE LET year == Quo(daynr * 100, 36525)
             leapAdjust == Quo((Quo(year - 1, 100) + 1) * 3, 4)
             yday == (daynr - year * 365) - Quo(year - 1, 4) + leapAdjust
         IN IF yday > daysInYear(year)
            THEN monthAndDay(year + 1, 1, yday - daysInYear(year))
            ELSE monthAndDay(year, 1, yday)

\* IntervalType: the set of the parts a unit is made of.
TimeParts == {"hour", "minute", "second", "microsecond"}
HasTimeParts(unit) == unit \cap TimeParts # {}
HasDayParts(unit) == "day" \in unit
HasMonthParts(unit) == "month" \in unit
IntervalYear == {"year"}

\* x > a * b, without forming the product.
Exceeds(x, a, b) == (x \div b > a) \/ (x \div b = a /\ x % b > 0)

\* Interval.inRange: no part is longer than the whole calendar.
inRange(itv) ==
    /\ itv.day <= maxDay
    /\ ~Exceeds(itv.hour, maxDay, 24)
    /\ ~Exceeds(itv.min, maxDay, 24 * 60)
    /\ ~Exceeds(itv.sec, maxDay, 24 * 60 * 60)

\* Interval.toDuration: the day and time parts as one duration.
IntervalToDuration(itv) ==
    Dur(itv.day * SecondsPerDay + itv.hour * SecondsPerHour
            + itv.min * SecondsPerMinute + itv.sec,
        itv.nsec)

addTimeParts_NoBorrow(dt, itv) ==
    LET sum == DurAdd(DateTimeToDuration(dt), IntervalToDuration(itv))
        q == DurQuo(sum, SecondsPerDay)
        r == DurAdd(sum, Dur(-q * SecondsPerDay, 0))
        days == IF DateIsZero(dt.Date) THEN 0 ELSE q
        dur == IF DateIsZero(dt.Date) THEN sum ELSE r
        time == [nanosecond |-> DurRemNanos(DurAbs(dur)),
                 second |-> Uint8(DurRemQuo(dur, SecondsPerMinute, 1)),
                 minute |-> Uint8(DurRemQuo(dur, SecondsPerHour,
                                            SecondsPerMinute)),
                 hour |-> Uint16(DurQuo(dur, SecondsPerHour))]
        daynum == MysqlDayNumber(dt.Date.year, dt.Date.month, 1) + days
    IN
    IF ~inRange(itv) THEN [dt |-> dt, ok |-> FALSE]
    ELSE IF daynum < 0 \/ daynum > maxDay
    THEN [dt |-> [Date |-> dt.Date, Time |-> time], ok |-> FALSE]
    ELSE [dt |-> [Date |-> mysqlDateFromDayNumber(daynum), Time |-> time],
          ok |-> TRUE]

\* case itv.unit.HasTimeParts()
addTimeParts(dt, itv) ==
    LET sum == DurAdd(DateTimeToDuration(dt), IntervalToDuration(itv))
        q == DurQuo(sum, SecondsPerDay)
        r == DurAdd(sum, Dur(-q * SecondsPerDay, 0))
        days == IF DateIsZero(dt.Date) THEN 0
                ELSE IF DurIsNegative(r) THEN q - 1 ELSE q
        dur == IF DateIsZero(dt.Date) THEN sum
               ELSE IF DurIsNegative(r) THEN DurAdd(r, Dur(SecondsPerDay, 0))
               ELSE r
        time == [nanosecond |-> DurRemNanos(dur),
                 second |-> Uint8(DurRemQuo(dur, SecondsPerMinute, 1)),
                 minute |-> Uint8(DurRemQuo(dur, SecondsPerHour,
                                            SecondsPerMinute)),
                 hour |-> Uint16(DurQuo(dur, SecondsPerHour))]
        daynum == MysqlDayNumber(dt.Date.year, dt.Date.month, 1) + days
    IN
    IF ~inRange(itv) THEN [dt |-> dt, ok |-> FALSE]
    ELSE IF daynum < 0 \/ daynum > maxDay
    THEN [dt |-> [Date |-> dt.Date, Time |-> time], ok |-> FALSE]
    ELSE [dt |-> [Date |-> mysqlDateFromDayNumber(daynum), Time |-> time],
          ok |-> TRUE]

\* case itv.unit.HasDayParts()
addDayParts(dt, itv) ==
    LET daynum == MysqlDayNumber(dt.Date.year, dt.Date.month, dt.Date.day)
                      + itv.day
    IN [dt |-> [Date |-> mysqlDateFromDayNumber(daynum), Time |-> dt.Time],
        ok |-> TRUE]

\* case itv.unit.HasMonthParts()
addMonthParts(dt, itv) ==
    LET months == dt.Date.year * 12 + itv.year * 12 + (dt.Date.month - 1)
                      + itv.month
        year == months \div 12
        month == (months % 12) + 1
        dim == daysIn(month, year)
    IN
    IF months < 0 \/ months >= 120000 THEN [dt |-> dt, ok |-> FALSE]
    ELSE [dt |-> [Date |-> [year |-> Uint16(year),
                            month |-> Uint8(month),
                            day |-> IF dt.Date.day > dim THEN Uint8(dim)
                                    ELSE dt.Date.day],
                  Time |-> dt.Time],
          ok |-> TRUE]

\* case itv.unit == IntervalYear
addYear(dt, itv) ==
    LET year == dt.Date.year + itv.year IN
    IF itv.year > 10000 THEN [dt |-> dt, ok |-> FALSE]
    ELSE [dt |-> [Date |-> [year |-> Uint16(year),
                            month |-> dt.Date.month,
                            day |-> IF dt.Date.month = 2 /\ dt.Date.day = 29
                                       /\ ~isLeap(year)
                                    THEN 28 ELSE dt.Date.day],
                  Time |-> dt.Time],
          ok |-> TRUE]

\* DateTime.addInterval: the receiver as it is left, and the flag returned.
addInterval(dt, itv) ==
    IF HasTimeParts(itv.unit) THEN addTimeParts(dt, itv)
    ELSE IF HasDayParts(itv.unit) THEN addDayParts(dt, itv)
    ELSE IF HasMonthParts(itv.unit) THEN addMonthParts(dt, itv)
    ELSE IF itv.unit = IntervalYear THEN addYear(dt, itv)
    ELSE [dt |-> dt, ok |-> FALSE, panic |-> "unexpected IntervalType"]

\* DateTime.AddInterval, Date.AddInterval and Time.AddInterval, without the
\* precision they also return.
DateTimeAddInterval(dt, itv) == addInterval(dt, itv)

DateAddInterval(d, itv) ==
    LET r == addInterval([Date |-> d, Time |-> ZeroTime], itv)
    IN [d |-> r.dt.Date, ok |-> r.ok]

TimeAddInterval(t, itv) ==
    LET r == addInterval([Date |-> ZeroDate, Time |-> t], itv)
    IN [t |-> r.dt.Time, ok |-> r.ok]

(***************************************************************************)
(* The receivers and intervals AddInterval is called with.  Receivers are  *)
(* dates of the calendar in the first, a common, a leap and the last year; *)
(* intervals reach both ends of every range the code tests.  A receiver    *)
(* without a date takes whole seconds only, a date also takes fractions.   *)
(***************************************************************************)

MaxMonths == 13

Years == {0, 1, 2023, 2024, 9999}
Months == {1, 2, 3, 12}
Days == {1, 28, 29, 30, 31}

Dates ==
    {[year |-> y, month |-> m, day |-> d] :
        <<y, m, d>> \in {t \in Years \X Months \X Days :
                            t[3] <= daysIn(t[2], t[1])}}

MkTime(h, m, sec, nsec) ==
    [hour |-> h, minute |-> m, second |-> sec, nanosecond |-> nsec]

WholeTimes == {ZeroTime, MkTime(0, 0, 1, 0), MkTime(23, 59, 59, 0),
               MkTime(838, 59, 59, 0), MkTime(negMask + 1, 0, 0, 0)}
ClockTimes == {ZeroTime, MkTime(12, 30, 45, 500000000),
               MkTime(23, 59, 59, 999999000)}

MkInterval(unit, y, mo, d, h, mi, sec, nsec) ==
    [unit |-> unit, year |-> y, month |-> mo, day |-> d, hour |-> h,
     min |-> mi, sec |-> sec, nsec |-> nsec]

YearIntervals ==
    {MkInterval({"year"}, y, 0, 0, 0, 0, 0, 0) :
        y \in {-10001, -10000, -9999, -2, -1, 0, 1, 2, 4, 9999, 10000,
               10001}}
MonthIntervals ==
    {MkInterval({"month"}, 0, m, 0, 0, 0, 0, 0) :
        m \in (-MaxMonths .. MaxMonths) \cup {-120000, 119999, 120000}}
YearMonthIntervals ==
    {MkInterval({"year", "month"}, y, m, 0, 0, 0, 0, 0) :
        y \in {-1, 1}, m \in {-11, 11}}
DayIntervals ==
    {MkInterval({"day"}, 0, 0, d, 0, 0, 0, 0) :
        d \in {-maxDay, -366, -365, -31, -1, 0, 1, 31, 365, 366, maxDay,
               maxDay + 1}}
WholeTimeIntervals ==
    {MkInterval({"hour"}, 0, 0, 0, h, 0, 0, 0) :
        h \in {-25, -24, -1, 0, 1, 24, 25, maxDay * 24 + 1}}
    \cup {MkInterval({"second"}, 0, 0, 0, 0, 0, sec, 0) :
        sec \in {-86401, -86400, -1, 0, 1, 59, 86399, 86400}}
    \cup {MkInterval({"day", "hour"}, 0, 0, d, h, 0, 0, 0) :
        <<d, h>> \in {<<1, 1>>, <<-1, -1>>}}
FractionIntervals ==
    {MkInterval({"microsecond"}, 0, 0, 0, 0, 0, 0, n) :
        n \in {-500000000, 1000, 500000000}}
DateIntervals ==
    YearIntervals \cup MonthIntervals \cup YearMonthIntervals
        \cup DayIntervals
Intervals == DateIntervals \cup WholeTimeIntervals \cup FractionIntervals

CallDateTimeAddInterval ==
    /\ op = "init"
    /\ \E d \in Dates, t \in ClockTimes, itv \in Intervals :
          LET dt == [Date |-> d, Time |-> t] IN
          /\ op' = "DateTime.AddInterval"
          /\ arg' = [dt |-> dt, itv |-> itv]
          /\ res' = DateTimeAddInterval(dt, itv)

CallDateAddInterval ==
    /\ op = "init"
    /\ \E d \in Dates \cup {ZeroDate},
          itv \in DateIntervals \cup WholeTimeIntervals :
          /\ op' = "Date.AddInterval"
          /\ arg' = [dt |-> [Date |-> d, Time |-> ZeroTime], itv |-> itv]
          /\ res' = DateAddInterval(d, itv)

CallTimeAddInterval ==
    /\ op = "init"
    /\ \E t \in WholeTimes, itv \in WholeTimeIntervals :
          /\ op' = "Time.AddInterval"
          /\ arg' = [dt |-> [Date |-> ZeroDate, Time |-> t], itv |-> itv]
          /\ res' = TimeAddInterval(t, itv)

NextDateTime ==
    \/ CallDateTimeAddInterval
    \/ CallDateAddInterval
    \/ CallTimeAddInterval
    \/ Return

SpecDateTime == Init /\ [][NextDateTime]_vars

(***************************************************************************)
(* Date.Week.  ToStdTime hands the date to the standard library, whose     *)
(* calendar is the proleptic Gregorian one, with a year 0 that is a leap   *)
(* year; a position in it is a year and a day of that year, from 1.        *)
(***************************************************************************)

daysOfYear(year) == IF isLeap(year) THEN 366 ELSE 365

RECURSIVE daysBeforeMonth(_, _)
daysBeforeMonth(month, year) ==
    IF month <= 1 THEN 0
    ELSE daysBeforeMonth(month - 1, year) + daysIn(month - 1, year)

\* time.Time.YearDay of a date of the calendar.
YearDay(d) == daysBeforeMonth(d.month, d.year) + d.day

\* The days from 0001-01-01 to the first day of a year.
daysBeforeYear(year) ==
    LET y == year - 1
    IN 365 * y + (y \div 4) - (y \div 100) + (y \div 400)

\* time.Time.Weekday, Sunday = 0: 0001-01-01 is a Monday.
GoWeekday(year, yday) == (daysBeforeYear(year) + yday) % 7

\* time.Time.AddDate(0, 0, delta) for less than a year of days.
AddDays(year, yday, delta) ==
    LET t == yday + delta IN
    IF t < 1 THEN [year |-> year - 1, yday |-> t + daysOfYear(year - 1)]
    ELSE IF t > daysOfYear(year)
    THEN [year |-> year + 1, yday |-> t - daysOfYear(year)]
    ELSE [year |-> year, yday |-> t]

\* The year and the week a day of the year falls in, weeks counted in
\* sevens from the first day of the year.
YearAndWeek(t) == [year |-> t.year, week |-> ((t.yday - 1) \div 7) + 1]

\* time.Time.ISOWeek: the week of the Thursday of the date's week.
ISOWeek(d) ==
    LET wd == (GoWeekday(d.year, YearDay(d)) + 6) % 7
    IN YearAndWeek(AddDays(d.year, YearDay(d), 3 - wd))

SundayWeek_FromMonday(d) ==
    LET wd == (GoWeekday(d.year, YearDay(d)) + 6) % 7
    IN YearAndWeek(AddDays(d.year, YearDay(d), -wd))

\* Date.SundayWeek: the week of the last Sunday seen.
SundayWeek(d) ==
    LET wd == GoWeekday(d.year, YearDay(d))
    IN YearAndWeek(AddDays(d.year, YearDay(d), -wd))

\* Date.MondayWeek: the week of the last Monday seen.
MondayWeek(d) ==
    LET wd == (GoWeekday(d.year, YearDay(d)) + 6) % 7
    IN YearAndWeek(AddDays(d.year, YearDay(d), -wd))

\* Date.Sunday4DayWeek: the week of the Wednesday of the date's week.
Sunday4DayWeek(d) ==
    LET wd == GoWeekday(d.year, YearDay(d))
    IN YearAndWeek(AddDays(d.year, YearDay(d), 3 - wd))

\* The week of a mode that has a week 0: 0 before the first week of the
\* date's year, 53 after its last.
WeekInYear(d, yw) ==
    IF yw.year < d.year THEN 0
    ELSE IF yw.year > d.year THEN 53
    ELSE yw.week

Week_ISOInEveryYear(d, mode) ==
    LET m == mode % 8 IN
    IF m = 0 THEN WeekInYear(d, SundayWeek(d))
    ELSE IF m = 1 THEN ISOWeek(d).week
    ELSE IF m = 2 THEN SundayWeek(d).week
    ELSE IF m = 3 THEN ISOWeek(d).week
    ELSE IF m = 4 THEN WeekInYear(d, Sunday4DayWeek(d))
    ELSE IF m = 5 THEN WeekInYear(d, MondayWeek(d))
    ELSE IF m = 6 THEN Sunday4DayWeek(d).week
    ELSE MondayWeek(d).week

\* Date.Week; mode & 7 leaves the default of the switch without a mode.
Week(d, mode) ==
    LET m == mode % 8 IN
    IF m = 0 THEN WeekInYear(d, SundayWeek(d))
    ELSE IF m = 1 THEN WeekInYear(d, ISOWeek(d))
    ELSE IF m = 2 THEN SundayWeek(d).week
    ELSE IF m = 3 THEN ISOWeek(d).week
    ELSE IF m = 4 THEN WeekInYear(d, Sunday4DayWeek(d))
    ELSE IF m = 5 THEN WeekInYear(d, MondayWeek(d))
    ELSE IF m = 6 THEN Sunday4DayWeek(d).week
    ELSE MondayWeek(d).week

(***************************************************************************)
(* The dates Week is called with: the days of the months at both ends and  *)
(* inside of a year, in the first two and the last year of the calendar    *)
(* and in a run of years that holds every weekday of January 1 in leap and *)
(* common years.                                                           *)
(***************************************************************************)

FirstWeekYear == 1996
LastWeekYear == 2024

WeekYears == {0, 1, 9999} \cup (FirstWeekYear .. LastWeekYear)
WeekMonths == {1, 2, 6, 12}
WeekModes == 0 .. 8

WeekDates ==
    {[year |-> y, month |-> m, day |-> d] :
        <<y, m, d>> \in {t \in WeekYears \X WeekMonths \X (1 .. 31) :
                            t[3] <= daysIn(t[2], t[1])}}

CallDateWeek ==
    /\ op = "init"
    /\ \E d \in WeekDates, mode \in WeekModes :
          /\ op' = "Date.Week"
          /\ arg' = [d |-> d, mode |-> mode]
          /\ res' = [week |-> Week(d, mode)]

NextWeek == CallDateWeek \/ Return

SpecWeek == Init /\ [][NextWeek]_vars

(***************************************************************************)
(* Time.Round and DateTime.Round.                                          *)
(***************************************************************************)

precs == <<1000000000, 100000000, 10000000, 1000000, 100000, 10000, 1000,
           100, 10, 1>>

roundNanos_HalfDown(n, p) ==
    LET prec == precs[p + 1]
        s == (n \div prec) * prec
        l == s + prec
    IN IF n - s > l - n THEN l ELSE s

\* The nanoseconds rounded to p digits: the nearer of the two multiples of
\* the precision around n, the upper one when n is halfway.
roundNanos(n, p) ==
    LET prec == precs[p + 1]
        s == (n \div prec) * prec
        l == s + prec
    IN IF n - s >= l - n THEN l ELSE s

TimeRound(t, p) ==
    LET n == roundNanos(t.nanosecond, p)
        carry == n = NanosPerSecond
        second == IF carry THEN Uint8(t.second + 1) ELSE t.second
        carryMinute == carry /\ second = 60
        minute == IF carryMinute THEN Uint8(t.minute + 1) ELSE t.minute
        carryHour == carryMinute /\ minute = 60
    IN
    IF t.nanosecond = 0 THEN t
    ELSE [hour |-> IF carryHour THEN Uint16(t.hour + 1) ELSE t.hour,
          minute |-> IF carryHour THEN 0 ELSE minute,
          second |-> IF carryMinute THEN 0 ELSE second,
          nanosecond |-> IF carry THEN 0 ELSE n]

\* &Interval{timeparts: timeparts{sec: 1}, unit: IntervalSecond}
OneSecond == MkInterval({"second"}, 0, 0, 0, 0, 0, 1, 0)

\* DateTime.Round: the carry is added as an interval of one second, and the
\* flag of addInterval is dropped.
DateTimeRound(dt, p) ==
    LET n == roundNanos(dt.Time.nanosecond, p)
        whole == [Date |-> dt.Date,
                  Time |-> [dt.Time EXCEPT !.nanosecond = 0]]
    IN
    IF dt.Time.nanosecond = 0 THEN dt
    ELSE IF n = NanosPerSecond THEN addInterval(whole, OneSecond).dt
    ELSE [Date |-> dt.Date, Time |-> [dt.Time EXCEPT !.nanosecond = n]]

(***************************************************************************)
(* The values Round is called with: fractions at, below and above the half *)
(* of several precisions, on times before a carry into the minute, the     *)
(* hour and the day, at the end of a month, a year and the calendar.       *)
(***************************************************************************)

Precisions == 0 .. 9

RoundNanos == {0, 1, 4, 5, 123456789, 449999999, 450000000, 499999999,
               500000000, 949999999, 950000000, 999999499, 999999500,
               999999999}

RoundClocks == {<<0, 0, 0>>, <<12, 30, 45>>, <<0, 0, 59>>, <<0, 59, 59>>,
                <<23, 59, 59>>}
RoundTimes ==
    {MkTime(c[1], c[2], c[3], n) : c \in RoundClocks, n \in RoundNanos}
\* Times of more than a day, and negative ones.
LongTimes ==
    {MkTime(h, 59, 59, n) : h \in {838, negMask + 1, negMask + 838},
                            n \in RoundNanos}

RoundDates ==
    {ZeroDate} \cup
    {[year |-> d[1], month |-> d[2], day |-> d[3]] :
        d \in {<<1, 1, 1>>, <<2023, 1, 31>>, <<2023, 12, 31>>,
               <<2024, 2, 28>>, <<2024, 2, 29>>, <<9999, 12, 31>>}}

CallTimeRound ==
    /\ op = "init"
    /\ \E t \in RoundTimes \cup LongTimes, p \in Precisions :
          /\ op' = "Time.Round"
          /\ arg' = [dt |-> [Date |-> ZeroDate, Time |-> t], p |-> p]
          /\ res' = [dt |-> [Date |-> ZeroDate, Time |-> TimeRound(t, p)]]

CallDateTimeRound ==
    /\ op = "init"
    /\ \E dt \in {[Date |-> d, Time |-> t] :
                        d \in RoundDates, t \in RoundTimes}
                  \cup {[Date |-> ZeroDate, Time |-> t] : t \in LongTimes},
          p \in Precisions :
          /\ op' = "DateTime.Round"
          /\ arg' = [dt |-> dt, p |-> p]
          /\ res' = [dt |-> DateTimeRound(dt, p)]

NextRound == CallTimeRound \/ CallDateTimeRound \/ Return

SpecRound == Init /\ [][NextRound]_vars

(***************************************************************************)
(* Time.Compare and Time.ToDuration                                        *)
(***************************************************************************)

\* Time.ToDuration: the duration of the hour without its sign bit, the
\* minute, the second and the nanosecond, negated for a negative time.
Time_ToDuration(t) ==
    LET duration == Dur(TimeHour(t) * SecondsPerHour
                            + t.minute * SecondsPerMinute + t.second,
                        t.nanosecond)
    IN IF TimeNeg(t) THEN DurNegate(duration) ELSE duration

\* The comparison of the fields, after the test of the signs.
compareFields(t, t2) ==
    IF TimeHour(t) < TimeHour(t2) THEN -1
    ELSE IF TimeHour(t) > TimeHour(t2) THEN 1
    ELSE IF t.minute < t2.minute THEN -1
    ELSE IF t.minute > t2.minute THEN 1
    ELSE IF t.second < t2.second THEN -1
    ELSE IF t.second > t2.second THEN 1
    ELSE IF t.nanosecond < t2.nanosecond THEN -1
    ELSE IF t.nanosecond > t2.nanosecond THEN 1
    ELSE 0

Time_Compare(t, t2) ==
    IF TimeNeg(t) # TimeNeg(t2) THEN (IF TimeNeg(t) THEN -1 ELSE 1)
    ELSE IF TimeNeg(t) THEN compareFields(t2, t)
    ELSE compareFields(t, t2)

\* The times compared, of either sign.
ComparedTimes ==
    {MkTime(sign + h, m, sec, n) :
        sign \in {0, negMask}, h \in {0, 1, 838}, m \in {0, 59},
        sec \in {0, 59}, n \in {0, 1, 999999999}}

CallTimeCompare ==
    /\ op = "init"
    /\ \E t \in ComparedTimes, t2 \in ComparedTimes :
          /\ op' = "Time.Compare"
          /\ arg' = [t |-> t, t2 |-> t2]
          /\ res' = [cmp |-> Time_Compare(t, t2), back |-> Time_Compare(t2, t)]

NextCompare == CallTimeCompare \/ Return

SpecCompare == Init /\ [][NextCompare]_vars

(***************************************************************************)
(* NewTimeFromSeconds.  The decimal number of seconds is its sign, its     *)
(* integral part, the first nine digits of its fraction as nanoseconds,    *)
(* and whether later digits of the fraction are not all zero.              *)
(***************************************************************************)

MaxHours == 838
decSecondsInHour == 3600
decMinutesInHour == 60

\* Decimal.Sign and Decimal.Abs
DecimalSign(d) ==
    IF d.sec = 0 /\ d.ns = 0 /\ ~d.more THEN 0
    ELSE IF d.neg THEN -1 ELSE 1
DecimalAbs(d) == [d EXCEPT !.neg = FALSE]

\* h.Cmp(decMaxHours) > 0
overMaxHours_FromMaxHours(h) == h >= MaxHours

overMaxHours(h) == h > MaxHours

NewTimeFromSeconds(seconds) ==
    LET neg == DecimalSign(seconds) < 0
        abs == IF neg THEN DecimalAbs(seconds) ELSE seconds
        \* seconds.QuoRem(1, 0), frac.Mul(10^9) and its Int64
        whole == abs.sec
        nsec == abs.ns
        \* sec.QuoRem(decSecondsInHour, 0), sec.QuoRem(decMinutesInHour, 0)
        h == whole \div decSecondsInHour
        min == (whole % decSecondsInHour) \div decMinutesInHour
        sec == (whole % decSecondsInHour) % decMinutesInHour
    IN IF overMaxHours(h)
       THEN MkTime(MaxHours + (IF neg THEN negMask ELSE 0), 59, 59, 0)
       ELSE MkTime(Uint16(h + (IF neg THEN negMask ELSE 0)), Uint8(min),
                   Uint8(sec), nsec)

\* The numbers of seconds: around a minute, an hour, a day and the largest
\* hour, and far beyond it.
SecondCounts ==
    {0, 1, 59, 60, 3599, 3600, 86399, 86400, 3016800, 3020399, 3020400,
     3020401, 2000000000}

DecimalSeconds ==
    {d \in [neg : BOOLEAN, sec : SecondCounts,
            ns : {0, 1, 500000000, 999999999}, more : BOOLEAN] :
        d.neg => (d.sec # 0 \/ d.ns # 0 \/ d.more)}

CallNewTimeFromSeconds ==
    /\ op = "init"
    /\ \E seconds \in DecimalSeconds :
          /\ op' = "NewTimeFromSeconds"
          /\ arg' = [seconds |-> seconds]
          /\ res' = [t |-> NewTimeFromSeconds(seconds)]

NextSeconds == CallNewTimeFromSeconds \/ Return

SpecSeconds == Init /\ [][NextSeconds]_vars

(***************************************************************************)
(*                 pkg/sqlparser: the joins of a FROM clause               *)
(*                                                                         *)
(* Parser.Parse on the token stream of a SELECT * FROM over one table or   *)
(* one join of two tables.  A parse function returns the node it built and *)
(* the position of the next token, or a syntax error.                      *)
(***************************************************************************)

Keywords == {"SELECT", "FROM", "HASH", "PARALLEL", "INNER", "LEFT", "RIGHT",
             "OUTER", "JOIN", "ON", "USING"}
Punctuation == {"*", ".", "=", "(", ")", ",", "EOF"}

IsIdent(tok) == tok \notin Keywords \cup Punctuation

\* The token at position i; past the last one, the end of the input.
Tok(ts, i) == IF i <= Len(ts) THEN ts[i] ELSE "EOF"

SyntaxError(i) == [err |-> "syntax error", at |-> i]
UnknownFunction(i) == [err |-> "UnknownFunction", at |-> i]
IsError(r) == "err" \in DOMAIN r

\* Join kinds.
NormalJoinType == [name |-> "Inner"]
LeftJoinType == [name |-> "LeftOuter"]
RightJoinType == [name |-> "RightOuter"]
HashJoinType == [name |-> "Hash"]
ParallelJoinType(sub) == [name |-> "Parallel", sub |-> sub.name]

\* JOIN | INNER JOIN | LEFT [OUTER] JOIN | RIGHT [OUTER] JOIN
standardJoin(ts, i) ==
    IF Tok(ts, i) = "JOIN" THEN [node |-> NormalJoinType, next |-> i + 1]
    ELSE IF Tok(ts, i) = "INNER" /\ Tok(ts, i + 1) = "JOIN"
    THEN [node |-> NormalJoinType, next |-> i + 2]
    ELSE IF Tok(ts, i) \in {"LEFT", "RIGHT"}
    THEN LET kind == IF Tok(ts, i) = "LEFT" THEN LeftJoinType
                     ELSE RightJoinType
             j == IF Tok(ts, i + 1) = "OUTER" THEN i + 2 ELSE i + 1
         IN IF Tok(ts, j) = "JOIN" THEN [node |-> kind, next |-> j + 1]
            ELSE SyntaxError(j)
    ELSE SyntaxError(i)

joinKind_ParallelDropped(ts, i) ==
    IF Tok(ts, i) = "HASH" /\ Tok(ts, i + 1) = "JOIN"
    THEN [node |-> HashJoinType, next |-> i + 2]
    ELSE IF Tok(ts, i) = "PARALLEL" THEN standardJoin(ts, i + 1)
    ELSE standardJoin(ts, i)

\* The join kind with its optional prefix: HASH JOIN, or PARALLEL before a
\* standard join.
joinKind(ts, i) ==
    IF Tok(ts, i) = "HASH" /\ Tok(ts, i + 1) = "JOIN"
    THEN [node |-> HashJoinType, next |-> i + 2]
    ELSE IF Tok(ts, i) = "PARALLEL"
    THEN LET sub == standardJoin(ts, i + 1)
         IN IF IsError(sub) THEN sub
            ELSE [node |-> ParallelJoinType(sub.node), next |-> sub.next]
    ELSE standardJoin(ts, i)

AliasedTableExpr(name) == [type |-> "AliasedTableExpr", Name |-> name]

tableFactor(ts, i) ==
    IF IsIdent(Tok(ts, i))
    THEN [node |-> AliasedTableExpr(Tok(ts, i)), next |-> i + 1]
    ELSE SyntaxError(i)

\* qualifier . name
columnName(ts, i) ==
    IF IsIdent(Tok(ts, i)) /\ Tok(ts, i + 1) = "." /\ IsIdent(Tok(ts, i + 2))
    THEN [node |-> [type |-> "ColName", Qualifier |-> Tok(ts, i),
                    Name |-> Tok(ts, i + 2)],
          next |-> i + 3]
    ELSE SyntaxError(i)

\* ON column = column | USING ( column )
joinCondition(ts, i) ==
    IF Tok(ts, i) = "ON"
    THEN LET l == columnName(ts, i + 1) IN
         IF IsError(l) THEN l
         ELSE IF Tok(ts, l.next) # "=" THEN SyntaxError(l.next)
         ELSE LET r == columnName(ts, l.next + 1) IN
              IF IsError(r) THEN r
              ELSE [node |-> [On |-> [type |-> "ComparisonExpr",
                                      Operator |-> "=", Left |-> l.node,
                                      Right |-> r.node]],
                    next |-> r.next]
    ELSE IF /\ Tok(ts, i) = "USING"
            /\ Tok(ts, i + 1) = "("
            /\ IsIdent(Tok(ts, i + 2))
            /\ Tok(ts, i + 3) = ")"
    THEN [node |-> [Using |-> <<Tok(ts, i + 2)>>], next |-> i + 4]
    ELSE SyntaxError(i)

\* table | table join-kind table join-condition
tableReference(ts, i) ==
    LET lhs == tableFactor(ts, i) IN
    IF IsError(lhs) \/ Tok(ts, lhs.next) = "EOF" THEN lhs
    ELSE LET kind == joinKind(ts, lhs.next) IN
         IF IsError(kind) THEN kind
         ELSE LET rhs == tableFactor(ts, kind.next) IN
              IF IsError(rhs) THEN rhs
              ELSE LET cond == joinCondition(ts, rhs.next) IN
                   IF IsError(cond) THEN cond
                   ELSE [node |-> [type |-> "JoinTableExpr",
                                   LeftExpr |-> lhs.node,
                                   Join |-> kind.node,
                                   RightExpr |-> rhs.node,
                                   Condition |-> cond.node],
                         next |-> cond.next]

\* Parser.Parse: the statement and a nil error, or no statement and the
\* error with the position of the token it was raised at.
NilStatement == [type |-> "nil"]
ParseError(e) == [stmt |-> NilStatement, err |-> e.err, at |-> e.at]

\* An unqualified column.
ColName(name) == [type |-> "ColName", Name |-> name]

\* The arguments of a call after its "(": columns separated by commas, up to
\* the ")".
RECURSIVE argumentList(_, _, _)
argumentList(ts, i, args) ==
    IF Tok(ts, i) = ")" /\ args = <<>> THEN [node |-> args, next |-> i + 1]
    ELSE IF ~IsIdent(Tok(ts, i)) THEN SyntaxError(i)
    ELSE LET more == Append(args, ColName(Tok(ts, i))) IN
         IF Tok(ts, i + 1) = ")" THEN [node |-> more, next |-> i + 2]
         ELSE IF Tok(ts, i + 1) = ","
         THEN argumentList(ts, i + 2, more)
         ELSE SyntaxError(i + 1)

FuncExpr(name, args) == [type |-> "FuncExpr", Name |-> name, Exprs |-> args]
AliasedExpr(expr) == [type |-> "AliasedExpr", Expr |-> expr]

selectExpression_HashIsAFunction(ts, i) ==
    IF Tok(ts, i) = "*" THEN [node |-> [type |-> "StarExpr"], next |-> i + 1]
    ELSE IF (IsIdent(Tok(ts, i)) \/ Tok(ts, i) = "HASH")
                /\ Tok(ts, i + 1) = "("
    THEN LET args == argumentList(ts, i + 2, <<>>) IN
         IF IsError(args) THEN args
         ELSE [node |-> AliasedExpr(FuncExpr(Tok(ts, i), args.node)),
               next |-> args.next]
    ELSE IF IsIdent(Tok(ts, i))
    THEN [node |-> AliasedExpr(ColName(Tok(ts, i))), next |-> i + 1]
    ELSE SyntaxError(i)

\* * | name ( arguments ) | column.  HASH before "(" is no function: the
\* error UnknownFunction at the position of HASH.
selectExpression(ts, i) ==
    IF Tok(ts, i) = "*" THEN [node |-> [type |-> "StarExpr"], next |-> i + 1]
    ELSE IF Tok(ts, i) = "HASH" /\ Tok(ts, i + 1) = "("
    THEN UnknownFunction(i)
    ELSE IF IsIdent(Tok(ts, i)) /\ Tok(ts, i + 1) = "("
    THEN LET args == argumentList(ts, i + 2, <<>>) IN
         IF IsError(args) THEN args
         ELSE [node |-> AliasedExpr(FuncExpr(Tok(ts, i), args.node)),
               next |-> args.next]
    ELSE IF IsIdent(Tok(ts, i))
    THEN [node |-> AliasedExpr(ColName(Tok(ts, i))), next |-> i + 1]
    ELSE SyntaxError(i)

\* SELECT select-expression [FROM table-reference]
Parse(ts) ==
    IF Tok(ts, 1) # "SELECT" THEN ParseError(SyntaxError(1))
    ELSE LET expr == selectExpression(ts, 2) IN
    IF IsError(expr) THEN ParseError(expr)
    ELSE IF Tok(ts, expr.next) = "EOF"
    THEN [stmt |-> [type |-> "Select", SelectExprs |-> <<expr.node>>,
                    From |-> <<>>],
          err |-> "nil", at |-> 0]
    ELSE IF Tok(ts, expr.next) # "FROM"
    THEN ParseError(SyntaxError(expr.next))
    ELSE LET from == tableReference(ts, expr.next + 1) IN
         IF IsError(from) THEN ParseError(from)
         ELSE IF Tok(ts, from.next) # "EOF"
         THEN ParseError(SyntaxError(from.next))
         ELSE [stmt |-> [type |-> "Select",
                         SelectExprs |-> <<expr.node>>,
                         From |-> <<from.node>>],
               err |-> "nil", at |-> 0]

(***************************************************************************)
(* The lexer: the words and the single characters of a text, each with the *)
(* column of its first byte, counted from 1.                               *)
(***************************************************************************)

\* The spelling of the words the texts are written with.
Spelling ==
    ("SELECT" :> <<"S", "E", "L", "E", "C", "T">> @@
     "FROM" :> <<"F", "R", "O", "M">> @@
     "HASH" :> <<"H", "A", "S", "H">> @@
     "HASHFUNC" :> <<"H", "A", "S", "H", "F", "U", "N", "C">> @@
     "PARALLEL" :> <<"P", "A", "R", "A", "L", "L", "E", "L">> @@
     "INNER" :> <<"I", "N", "N", "E", "R">> @@
     "LEFT" :> <<"L", "E", "F", "T">> @@
     "RIGHT" :> <<"R", "I", "G", "H", "T">> @@
     "OUTER" :> <<"O", "U", "T", "E", "R">> @@
     "JOIN" :> <<"J", "O", "I", "N">> @@
     "ON" :> <<"O", "N">> @@
     "USING" :> <<"U", "S", "I", "N", "G">> @@
     "X" :> <<"X">> @@
     "Y" :> <<"Y">> @@
     "id" :> <<"i", "d">> @@
     "a" :> <<"a">> @@
     "b" :> <<"b">>)

WordOf(run) == CHOOSE w \in DOMAIN Spelling : Spelling[w] = run

\* The token after the spaces from position i on, its column and the
\* position after it; at the end of the text the token EOF.
nextToken(sql, i) ==
    LET at == runEnd(sql, i, {" "}) IN
    IF at > Len(sql) THEN [tok |-> "EOF", col |-> at, next |-> at]
    ELSE IF sql[at] \in Letters
    THEN LET j == runEnd(sql, at, Letters \cup DigitSet)
         IN [tok |-> WordOf(SubSeq(sql, at, j - 1)), col |-> at, next |-> j]
    ELSE [tok |-> sql[at], col |-> at, next |-> at + 1]

RECURSIVE Tokenize(_, _)
Tokenize(sql, i) ==
    LET t == nextToken(sql, i) IN
    IF t.tok = "EOF" THEN <<>>
    ELSE <<[tok |-> t.tok, col |-> t.col]>> \o Tokenize(sql, t.next)

\* The parser on the tokens of a text of the length len: the position of an
\* error is the column of the token it was raised at.
ParseTokens(toks, len) ==
    LET r == Parse([k \in 1 .. Len(toks) |-> toks[k].tok])
    IN IF r.err = "nil" THEN r
       ELSE [r EXCEPT !.at = IF r.at <= Len(toks) THEN toks[r.at].col
                             ELSE len + 1]

\* Parse of a text: the lexer, then the parser.
ParseSQL(sql) == ParseTokens(Tokenize(sql, 1), Len(sql))

(***************************************************************************)
(* The queries Parse is called with: SELECT * FROM over one table, or over *)
(* two tables joined by any run of up to MaxJoinWords join words, with an  *)
(* ON or a USING condition.                                                *)
(***************************************************************************)

MaxJoinWords == 4

TableNames == {"X", "Y"}
JoinWords == {"HASH", "PARALLEL", "INNER", "LEFT", "RIGHT", "OUTER", "JOIN"}

RECURSIVE WordRuns(_)
WordRuns(n) ==
    IF n = 0 THEN {<<>>}
    ELSE LET shorter == WordRuns(n - 1)
         IN shorter \cup {Append(r, w) : r \in shorter, w \in JoinWords}

OnTokens(l, r) == <<"ON", l, ".", "id", "=", r, ".", "id">>
UsingTokens == <<"USING", "(", "id", ")">>

Query(l, words, r, cond) ==
    <<"SELECT", "*", "FROM", l>> \o words \o <<r>> \o cond

Queries ==
    {<<"SELECT", "*", "FROM", l>> : l \in TableNames}
    \cup {Query(l, words, r, cond) :
            l \in TableNames, r \in TableNames,
            words \in WordRuns(MaxJoinWords) \ {<<>>},
            cond \in {OnTokens("X", "Y"), UsingTokens}}

(***************************************************************************)
(* The texts ParseSQL is called with: SELECT over a name, a call of a name *)
(* with up to two arguments, or nothing, with or without FROM X, written   *)
(* tightly or with a space between all tokens, from the first column or    *)
(* after a space.                                                          *)
(***************************************************************************)

CallNames == {"HASH", "HASHFUNC", "a"}
ArgumentLists == {<<>>, <<"a">>, <<"b">>, <<"a", "b">>, <<"b", "a">>}

RECURSIVE CommaSeparated(_)
CommaSeparated(args) ==
    IF Len(args) <= 1 THEN args
    ELSE <<args[1], ",">> \o CommaSeparated(Tail(args))

SelectLists ==
    {<<>>} \cup {<<n>> : n \in CallNames}
           \cup {<<n, "(">> \o CommaSeparated(args) \o <<")">> :
                    n \in CallNames, args \in ArgumentLists}

TokenLists ==
    {<<"SELECT">> \o l \o f : l \in SelectLists,
                               f \in {<<>>, <<"FROM", "X">>}}

TokenText(tok) == IF tok \in DOMAIN Spelling THEN Spelling[tok] ELSE <<tok>>

\* Written tightly there is no space before "(", ")" and ",", none after
\* "(" and none around ".".
Gap(style, left, right) ==
    IF style = "tight"
           /\ (right \in {"(", ")", ",", "."} \/ left \in {"(", "."})
    THEN <<>> ELSE <<" ">>

RECURSIVE Written(_, _)
Written(ts, style) ==
    IF Len(ts) = 1 THEN TokenText(ts[1])
    ELSE TokenText(ts[1]) \o Gap(style, ts[1], ts[2])
             \o Written(Tail(ts), style)

Texts ==
    {lead \o Written(ts, style) :
        lead \in {<<>>, <<" ">>}, ts \in TokenLists,
        style \in {"tight", "loose"}}

CallParseSQL ==
    /\ op = "init"
    /\ \E sql \in Texts :
          /\ op' = "ParseSQL"
          /\ arg' = [sql |-> sql]
          /\ res' = ParseSQL(sql)

CallParse ==
    /\ op = "init"
    /\ \E query \in Queries :
          /\ op' = "Parse"
          /\ arg' = [query |-> query]
          /\ res' = Parse(query)

NextParser == CallParse \/ CallParseSQL \/ Return

SpecParser == Init /\ [][NextParser]_vars

(***************************************************************************)
(* The formatter: the canonical text of a statement, its keywords in upper *)
(* case, one space between words.                                          *)
(***************************************************************************)

joinWords_ParallelDropped(kind) ==
    CASE kind.name = "Inner" -> <<"JOIN">>
      [] kind.name = "LeftOuter" -> <<"LEFT", "JOIN">>
      [] kind.name = "RightOuter" -> <<"RIGHT", "JOIN">>
      [] kind.name = "Hash" -> <<"HASH", "JOIN">>
      [] kind.name = "Parallel" ->
            CASE kind.sub = "Inner" -> <<"INNER", "JOIN">>
              [] kind.sub = "LeftOuter" -> <<"LEFT", "JOIN">>
              [] kind.sub = "RightOuter" -> <<"RIGHT", "JOIN">>

\* The words of a join kind.
joinWords(kind) ==
    CASE kind.name = "Inner" -> <<"JOIN">>
      [] kind.name = "LeftOuter" -> <<"LEFT", "JOIN">>
      [] kind.name = "RightOuter" -> <<"RIGHT", "JOIN">>
      [] kind.name = "Hash" -> <<"HASH", "JOIN">>
      [] kind.name = "Parallel" ->
            CASE kind.sub = "Inner" -> <<"PARALLEL", "INNER", "JOIN">>
              [] kind.sub = "LeftOuter" -> <<"PARALLEL", "LEFT", "JOIN">>
              [] kind.sub = "RightOuter" -> <<"PARALLEL", "RIGHT", "JOIN">>

formatColumn(col) ==
    IF "Qualifier" \in DOMAIN col THEN <<col.Qualifier, ".", col.Name>>
    ELSE <<col.Name>>

formatCondition(cond) ==
    IF "On" \in DOMAIN cond
    THEN <<"ON">> \o formatColumn(cond.On.Left) \o <<cond.On.Operator>>
             \o formatColumn(cond.On.Right)
    ELSE <<"USING", "(">> \o CommaSeparated(cond.Using) \o <<")">>

formatTableExpr(t) ==
    IF t.type = "AliasedTableExpr" THEN <<t.Name>>
    ELSE <<t.LeftExpr.Name>> \o joinWords(t.Join) \o <<t.RightExpr.Name>>
             \o formatCondition(t.Condition)

formatSelectExpr(e) ==
    IF e.type = "StarExpr" THEN <<"*">>
    ELSE IF e.Expr.type = "ColName" THEN formatColumn(e.Expr)
    ELSE <<e.Expr.Name, "(">>
             \o CommaSeparated([k \in 1 .. Len(e.Expr.Exprs) |->
                                   e.Expr.Exprs[k].Name])
             \o <<")">>

\* Format of a Select statement.
Format(stmt) ==
    Written(<<"SELECT">> \o formatSelectExpr(stmt.SelectExprs[1])
                \o (IF stmt.From = <<>> THEN <<>>
                    ELSE <<"FROM">> \o formatTableExpr(stmt.From[1])),
            "tight")

StandardJoins ==
    {<<"JOIN">>, <<"INNER", "JOIN">>, <<"LEFT", "JOIN">>,
     <<"LEFT", "OUTER", "JOIN">>, <<"RIGHT", "JOIN">>,
     <<"RIGHT", "OUTER", "JOIN">>}

JoinPrefixes ==
    StandardJoins \cup {<<"HASH", "JOIN">>}
                  \cup {<<"PARALLEL">> \o words : words \in StandardJoins}

\* The statements that are formatted: those of the texts that Parse
\* accepts, and of the queries over one table or over a join of two.
FormatTexts ==
    Texts
    \cup {Written(<<"SELECT", "*", "FROM", l>>, "loose") : l \in TableNames}
    \cup {Written(Query(l, words, r, cond), "loose") :
             l \in TableNames, r \in TableNames, words \in JoinPrefixes,
             cond \in {OnTokens("X", "Y"), UsingTokens}}

CallFormat ==
    /\ op = "init"
    /\ \E sql \in FormatTexts :
          /\ ParseSQL(sql).err = "nil"
          /\ op' = "Format"
          /\ arg' = [sql |-> sql, stmt |-> ParseSQL(sql).stmt]
          /\ res' = [sql |-> Format(ParseSQL(sql).stmt)]

NextFormat == CallFormat \/ Return

SpecFormat == Init /\ [][NextFormat]_vars

(***************************************************************************)
(* Parses running together.  Each parse has its own cursor, tokens and     *)
(* result; the keyword and grammar tables are shared by all of them.  A    *)
(* step of one parse reads one token, or at the end of the text builds the *)
(* statement; the steps of different parses interleave in any order.       *)
(***************************************************************************)

MaxParses == 2

ParserTables == [keywords |-> Keywords, punctuation |-> Punctuation]

Pending == [stmt |-> NilStatement, err |-> "pending", at |-> 0]
NewParse == [pos |-> 1, toks |-> <<>>, out |-> Pending]

scanStep_SharedCursor(sql, parses, tables, t) ==
    LET pos == IF "cursor" \in DOMAIN tables THEN tables.cursor ELSE 1
        tok == nextToken(sql, pos)
    IN [parses |-> [parses EXCEPT ![t].pos = tok.next,
                                  ![t].toks = Append(@, [tok |-> tok.tok,
                                                         col |-> tok.col])],
        tables |-> [keywords |-> tables.keywords,
                    punctuation |-> tables.punctuation,
                    cursor |-> tok.next]]

\* The parse t reads its next token.
scanStep(sql, parses, tables, t) ==
    LET tok == nextToken(sql, parses[t].pos)
    IN [parses |-> [parses EXCEPT ![t].pos = tok.next,
                                  ![t].toks = Append(@, [tok |-> tok.tok,
                                                         col |-> tok.col])],
        tables |-> tables]

\* The texts parsed together.
ConcurrentTexts ==
    {Written(ts, "tight") : ts \in TokenLists}
    \cup {Written(Query("X", words, "Y", OnTokens("X", "Y")), "loose") :
             words \in JoinPrefixes}

StartParses ==
    /\ op = "init"
    /\ \E sql \in ConcurrentTexts, n \in 1 .. MaxParses :
          /\ op' = "ParseConcurrently"
          /\ arg' = [sql |-> sql, n |-> n]
          /\ res' = [parses |-> [t \in 1 .. n |-> NewParse],
                     tables |-> ParserTables]

ScanToken ==
    /\ op = "ParseConcurrently"
    /\ \E t \in DOMAIN res.parses :
          /\ res.parses[t].out = Pending
          /\ nextToken(arg.sql, res.parses[t].pos).tok # "EOF"
          /\ res' = scanStep(arg.sql, res.parses, res.tables, t)
    /\ UNCHANGED <<op, arg>>

FinishParse ==
    /\ op = "ParseConcurrently"
    /\ \E t \in DOMAIN res.parses :
          /\ res.parses[t].out = Pending
          /\ nextToken(arg.sql, res.parses[t].pos).tok = "EOF"
          /\ res' = [res EXCEPT !.parses[t].out =
                        ParseTokens(res.parses[t].toks, Len(arg.sql))]
    /\ UNCHANGED <<op, arg>>

\* All parses have returned.
JoinParses ==
    /\ op = "ParseConcurrently"
    /\ \A t \in DOMAIN res.parses : res.parses[t].out # Pending
    /\ op' = "init"
    /\ arg' = NoCall
    /\ res' = NoCall

NextConcurrent == StartParses \/ ScanToken \/ FinishParse \/ JoinParses

SpecConcurrent == Init /\ [][NextConcurrent]_vars

(***************************************************************************)
(*                 Claims about the parser                                 *)
(***************************************************************************)

\* The join prefixes of the dialect, with the kind each one stands for.
DialectJoins ==
    {<<"HASH", "JOIN">>,
     <<"PARALLEL", "INNER", "JOIN">>,
     <<"PARALLEL", "JOIN">>,
     <<"PARALLEL", "LEFT", "JOIN">>,
     <<"PARALLEL", "LEFT", "OUTER", "JOIN">>,
     <<"PARALLEL", "RIGHT", "JOIN">>,
     <<"PARALLEL", "RIGHT", "OUTER", "JOIN">>}

DialectKind(words) ==
    IF words[1] = "HASH" THEN [name |-> "Hash"]
    ELSE IF "LEFT" \in {words[k] : k \in DOMAIN words}
    THEN [name |-> "Parallel", sub |-> "LeftOuter"]
    ELSE IF "RIGHT" \in {words[k] : k \in DOMAIN words}
    THEN [name |-> "Parallel", sub |-> "RightOuter"]
    ELSE [name |-> "Parallel", sub |-> "Inner"]

\* X.id = Y.id
OnXY ==
    [type |-> "ComparisonExpr", Operator |-> "=",
     Left |-> [type |-> "ColName", Qualifier |-> "X", Name |-> "id"],
     Right |-> [type |-> "ColName", Qualifier |-> "Y", Name |-> "id"]]

\* C1: parsing SELECT * FROM l <prefix> r ON X.id = Y.id, where <prefix> is
\* HASH JOIN or PARALLEL before INNER JOIN, JOIN, LEFT [OUTER] JOIN or
\* RIGHT [OUTER] JOIN, returns no error and a Select whose first From
\* element is a JoinTableExpr with lhs l, rhs r, the ON condition, and the
\* join kind Hash, respectively Parallel(sub-kind).
C1_DialectJoinsParse ==
    \A l \in TableNames, r \in TableNames, words \in DialectJoins :
        (op = "Parse" /\ arg.query = Query(l, words, r, OnTokens("X", "Y")))
            => /\ res.err = "nil"
               /\ res.stmt.type = "Select"
               /\ res.stmt.From[1] =
                      [type |-> "JoinTableExpr",
                       LeftExpr |-> [type |-> "AliasedTableExpr", Name |-> l],
                       Join |-> DialectKind(words),
                       RightExpr |-> [type |-> "AliasedTableExpr",
                                      Name |-> r],
                       Condition |-> [On |-> OnXY]]

\* SELECT * FROM X PARALLEL INNER JOIN Y ON X.id = Y.id has been parsed.
C1_Witness ==
    /\ op = "Parse"
    /\ arg.query = Query("X", <<"PARALLEL", "INNER", "JOIN">>, "Y",
                         OnTokens("X", "Y"))
    /\ res.err = "nil"
    /\ res.stmt.From[1].Join = [name |-> "Parallel", sub |-> "Inner"]

\* "SELECT HASH(a)" and "SELECT HASHFUNC(a, b)"
SelectHashA == Written(<<"SELECT", "HASH", "(", "a", ")">>, "tight")
SelectHashfuncAB ==
    Written(<<"SELECT", "HASHFUNC", "(", "a", ",", "b", ")">>, "tight")

HashBeforeParen(sql) ==
    LET toks == Tokenize(sql, 1) IN
    \E k \in 1 .. (Len(toks) - 1) :
        toks[k].tok = "HASH" /\ toks[k + 1].tok = "("

\* C20: HASH followed by "(" is never accepted as a function call: parsing
\* "SELECT HASH(a)" returns the error UnknownFunction at column 8 and no
\* statement, and "SELECT HASHFUNC(a, b)" parses to a function node named
\* HASHFUNC with the arguments a and b.
C20_HashIsNoFunction ==
    op = "ParseSQL" =>
        /\ HashBeforeParen(arg.sql) =>
              (res.err = "UnknownFunction" /\ res.stmt = NilStatement)
        /\ arg.sql = SelectHashA =>
              (res.err = "UnknownFunction" /\ res.at = 8
                  /\ res.stmt = NilStatement)
        /\ arg.sql = SelectHashfuncAB =>
              /\ res.err = "nil"
              /\ res.stmt.SelectExprs =
                    <<AliasedExpr(FuncExpr("HASHFUNC",
                                           <<ColName("a"), ColName("b")>>))>>

\* "SELECT HASH(a)" was parsed and refused.
C20_Witness ==
    op = "ParseSQL" /\ arg.sql = SelectHashA /\ res.err = "UnknownFunction"

ListedType(c) ==
    CASE c \in {0, 246} -> "DECIMAL"
      [] c = 1 -> "INT8"
      [] c = 2 -> "INT16"
      [] c = 3 -> "INT32"
      [] c = 4 -> "FLOAT32"
      [] c = 5 -> "FLOAT64"
      [] c = 6 -> "NULL_TYPE"
      [] c \in {7, 17} -> "TIMESTAMP"
      [] c = 8 -> "INT64"
      [] c = 9 -> "INT24"
      [] c = 10 -> "DATE"
      [] c \in {11, 19} -> "TIME"
      [] c \in {12, 18} -> "DATETIME"
      [] c = 13 -> "YEAR"
      [] c \in {15, 253} -> "VARCHAR"
      [] c = 16 -> "BIT"
      [] c = 242 -> "VECTOR"
      [] c = 245 -> "JSON"
      [] c = 247 -> "ENUM"
      [] c = 248 -> "SET"
      [] c \in 249..252 -> "TEXT"
      [] c = 254 -> "CHAR"
      [] c = 255 -> "GEOMETRY"
      [] OTHER -> "unlisted"

UnsignedOf(t) ==
    CASE t = "INT8" -> "UINT8"
      [] t = "INT16" -> "UINT16"
      [] t = "INT24" -> "UINT24"
      [] t = "INT32" -> "UINT32"
      [] t = "INT64" -> "UINT64"
      [] OTHER -> t

BinaryOf(t) ==
    CASE t = "TEXT" -> "BLOB"
      [] t = "VARCHAR" -> "VARBINARY"
      [] t = "CHAR" -> "BINARY"
      [] OTHER -> t

\* C2: for every listed protocol code MySQLToType returns a nil error, and
\* with flags 0 exactly the listed type; for every byte that is not listed
\* it returns an error, whatever the flags.
C2_MySQLToTypeFollowsTable ==
    op = "MySQLToType" =>
        IF ListedType(arg.mysqlType) = "unlisted"
        THEN res.err # "nil"
        ELSE /\ res.err = "nil"
             /\ arg.flags = 0 => res.typ = ListedType(arg.mysqlType)

C2_Witness ==
    /\ op = "MySQLToType"
    /\ arg.mysqlType = 253
    /\ arg.flags = 0
    /\ res = [typ |-> "VARCHAR", err |-> "nil"]

\* C3 as stated: UNSIGNED turns the five signed integer types into their
\* unsigned type, BINARY turns TEXT, VARCHAR and CHAR into BLOB, VARBINARY
\* and BINARY, and every other combination of base type and flags returns
\* the base type unchanged.
C3_OtherCombinationsUnchanged ==
    (op = "MySQLToType" /\ res.err = "nil") =>
        LET base == ListedType(arg.mysqlType) IN
        res.typ =
            IF HasFlag(arg.flags, mysqlUnsigned) /\ UnsignedOf(base) # base
            THEN UnsignedOf(base)
            ELSE IF HasFlag(arg.flags, mysqlBinary) /\ BinaryOf(base) # base
            THEN BinaryOf(base)
            ELSE base

\* C3 as amended: as above, except that CHAR without the BINARY flag
\* becomes ENUM when the ENUM flag is set, and otherwise SET when the SET
\* flag is set; every other combination returns the base type unchanged.
C3_FlagsModifyType ==
    (op = "MySQLToType" /\ res.err = "nil") =>
        LET base == ListedType(arg.mysqlType) IN
        res.typ =
            IF HasFlag(arg.flags, mysqlUnsigned) /\ UnsignedOf(base) # base
            THEN UnsignedOf(base)
            ELSE IF HasFlag(arg.flags, mysqlBinary) /\ BinaryOf(base) # base
            THEN BinaryOf(base)
            ELSE IF base = "CHAR" /\ HasFlag(arg.flags, mysqlEnum)
            THEN "ENUM"
            ELSE IF base = "CHAR" /\ HasFlag(arg.flags, mysqlSet)
            THEN "SET"
            ELSE base

\* A stray flag is ignored: UNSIGNED and BINARY on DATE.
C3_Witness ==
    /\ op = "MySQLToType"
    /\ arg.mysqlType = 10
    /\ arg.flags = mysqlUnsigned + mysqlBinary
    /\ res = [typ |-> "DATE", err |-> "nil"]

\* C4: for code 254 (CHAR) the result is ENUM whenever the ENUM flag is
\* set, and SET whenever the SET flag is set (and ENUM is not), for every
\* value of the remaining flags, BINARY included.
C4_EnumAndSetFlagsOnChar ==
    (op = "MySQLToType" /\ arg.mysqlType = 254) =>
        /\ HasFlag(arg.flags, mysqlEnum) => res.typ = "ENUM"
        /\ (HasFlag(arg.flags, mysqlSet) /\ ~HasFlag(arg.flags, mysqlEnum))
               => res.typ = "SET"

Unsigned(t) == IF Len(t) > 0 /\ t[1] \in {"+", "-"} THEN Tail(t) ELSE t
IsNegative(t) == Len(t) > 0 /\ t[1] = "-"

CountOf(t, c) == Cardinality({i \in 1..Len(t) : t[i] = c})

\* Optional sign, digits, at most one '.'.
WellFormed(t) ==
    LET b == Unsigned(t) IN
    /\ \A i \in 1..Len(b) : IsDigit(b[i]) \/ b[i] = "."
    /\ CountOf(b, ".") <= 1
    /\ \E i \in 1..Len(b) : IsDigit(b[i])

\* Empty or sign-only, more than one '.', or a byte that is neither a digit
\* nor a '.' after the optional sign.
Malformed(t) ==
    LET b == Unsigned(t) IN
    \/ b = <<>>
    \/ CountOf(b, ".") > 1
    \/ \E i \in 1..Len(b) : ~IsDigit(b[i]) /\ b[i] # "."

IntegralLen(t) ==
    LET b == Unsigned(t) IN
    IF IndexByte(b, ".") >= 0 THEN IndexByte(b, ".") ELSE Len(b)

FractionalLen(t) == Len(Unsigned(t)) - IntegralLen(t) - CountOf(t, ".")

\* C6: NewFromMySQL of 66 or more '9' digits, with an optional sign,
\* returns 65 nines with exponent 0 and that sign, and a nil error.
C6_ClampsFrom66Nines ==
    (/\ op = "NewFromMySQL"
     /\ Len(Unsigned(arg.s)) >= 66
     /\ \A i \in 1..Len(Unsigned(arg.s)) : Unsigned(arg.s)[i] = "9")
    => res = [dec |-> [value |-> [neg |-> IsNegative(arg.s),
                                  abs |-> [i \in 1..65 |-> 9]],
                       exp |-> 0],
              err |-> "nil"]

\* C7: for every well-formed input the result has at most 65 digits and at
\* most 30 fractional digits, no error is returned, and (when the integral
\* part is not clamped) the digits kept are the prefix of the input's
\* digits that ends with the last fractional digit kept.
C7_PrecisionCap ==
    (op = "NewFromMySQL" /\ WellFormed(arg.s)) =>
        /\ res.err = "nil"
        /\ Len(res.dec.value.abs) <= 65
        /\ res.dec.exp \in -30..0
        /\ -res.dec.exp <= FractionalLen(arg.s)
        /\ IntegralLen(arg.s) <= 65 =>
               res.dec.value.abs =
                   Normalize(SubSeq(DigitsOf(arg.s), 1,
                                    IntegralLen(arg.s) - res.dec.exp))

\* C8: NewFromMySQL returns an error for every malformed input, whatever
\* its length.
C8_MalformedIsRefused ==
    (op = "NewFromMySQL" /\ Malformed(arg.s)) => res.err # "nil"

(***************************************************************************)
(*                 Claims about AddInterval                                *)
(***************************************************************************)

AddIntervalOps ==
    {"DateTime.AddInterval", "Date.AddInterval", "Time.AddInterval"}

\* The date a call of AddInterval left behind.
ResultDate ==
    IF op = "Date.AddInterval" THEN res.d
    ELSE IF op = "DateTime.AddInterval" THEN res.dt.Date
    ELSE ZeroDate

\* The count of months since 0000-01 the receiver and the interval add up to.
MonthSum(d, itv) == d.year * 12 + itv.year * 12 + (d.month - 1) + itv.month

\* The day the receiver and the interval's day and time parts add up to,
\* counted in days as MysqlDayNumber counts them.
DaySum(dt, itv) ==
    MysqlDayNumber(dt.Date.year, dt.Date.month, dt.Date.day)
        + (IF HasTimeParts(itv.unit)
           THEN DurAdd(TimeToDuration(dt.Time),
                       IntervalToDuration(itv)).s \div SecondsPerDay
           ELSE itv.day)

\* The sum of receiver and interval has a date component outside
\* 0000-00-00 .. 9999-12-31.
SumOutOfRange(dt, itv) ==
    IF HasTimeParts(itv.unit)
    THEN /\ ~DateIsZero(dt.Date)
         /\ (~inRange(itv) \/ DaySum(dt, itv) \notin 0 .. maxDay)
    ELSE IF HasDayParts(itv.unit) THEN DaySum(dt, itv) \notin 0 .. maxDay
    ELSE IF HasMonthParts(itv.unit)
    THEN MonthSum(dt.Date, itv) \notin 0 .. (10000 * 12 - 1)
    ELSE dt.Date.year + itv.year \notin 0 .. 9999

\* C9: whenever the date components of the sum fall outside 0000-00-00 ..
\* 9999-12-31, AddInterval returns ok = false, whatever the unit of the
\* interval is.
C9_OutOfRangeFails ==
    (op \in AddIntervalOps /\ SumOutOfRange(arg.dt, arg.itv))
        => res.ok = FALSE

\* The same for the units whose branch tests the range: the time parts and
\* the month parts.
C9_TestedUnitsFail ==
    (/\ op \in AddIntervalOps
     /\ HasTimeParts(arg.itv.unit)
            \/ (~HasDayParts(arg.itv.unit) /\ HasMonthParts(arg.itv.unit))
     /\ SumOutOfRange(arg.dt, arg.itv))
        => res.ok = FALSE

\* A call that adds only months or years to a date, and succeeded.
AddsMonthsOrYears ==
    /\ op \in {"DateTime.AddInterval", "Date.AddInterval"}
    /\ ~HasTimeParts(arg.itv.unit)
    /\ ~HasDayParts(arg.itv.unit)
    /\ res.ok

ExpectedYear ==
    IF HasMonthParts(arg.itv.unit)
    THEN MonthSum(arg.dt.Date, arg.itv) \div 12
    ELSE arg.dt.Date.year + arg.itv.year

ExpectedMonth ==
    IF HasMonthParts(arg.itv.unit)
    THEN (MonthSum(arg.dt.Date, arg.itv) % 12) + 1
    ELSE arg.dt.Date.month

ExpectedDay ==
    LET dim == daysIn(ExpectedMonth, ExpectedYear) IN
    IF arg.dt.Date.day > dim THEN dim ELSE arg.dt.Date.day

\* C10: after AddInterval added months or years to a date, year and month
\* are the arithmetic sum, and the day is the original day when the
\* resulting month has it and the last day of the resulting month
\* otherwise.
C10_MonthsAndYearsClampBackward ==
    AddsMonthsOrYears
        => ResultDate = [year |-> ExpectedYear, month |-> ExpectedMonth,
                         day |-> ExpectedDay]

\* The same when the resulting year is not before the year 0.
C10_ClampBackwardFromYearZero ==
    (AddsMonthsOrYears /\ ExpectedYear >= 0)
        => ResultDate = [year |-> ExpectedYear, month |-> ExpectedMonth,
                         day |-> ExpectedDay]

\* 2023-01-31 plus one month is 2023-02-28.
C10_ClampReached ==
    /\ AddsMonthsOrYears
    /\ arg.dt.Date.day > daysIn(ExpectedMonth, ExpectedYear)
    /\ ResultDate.day = daysIn(ExpectedMonth, ExpectedYear)

\* A call that added time parts to a DateTime with a date and a time of day
\* below 24 hours, and succeeded.
AddsTimeToDate ==
    /\ op = "DateTime.AddInterval"
    /\ HasTimeParts(arg.itv.unit)
    /\ ~DateIsZero(arg.dt.Date)
    /\ arg.dt.Time.hour < 24
    /\ res.ok

\* Time of day plus interval, and the whole days in it (rounded down).
TimeSum == DurAdd(TimeToDuration(arg.dt.Time), IntervalToDuration(arg.itv))
DaysMoved == TimeSum.s \div SecondsPerDay

OriginalDayNumber ==
    MysqlDayNumber(arg.dt.Date.year, arg.dt.Date.month, arg.dt.Date.day)

\* The time of day left behind is below 24 hours, with minute and second
\* below 60, and is what remains of the sum after the whole days.
TimeOfDayNormalized ==
    /\ res.dt.Time.hour \in 0 .. 23
    /\ res.dt.Time.minute \in 0 .. 59
    /\ res.dt.Time.second \in 0 .. 59
    /\ res.dt.Time.nanosecond \in 0 .. (NanosPerSecond - 1)
    /\ TimeToDuration(res.dt.Time)
           = DurAdd(TimeSum, Dur(-DaysMoved * SecondsPerDay, 0))

\* The date left behind is the date of the calendar that many days away.
DateMovedByDays ==
    /\ res.dt.Date.month \in 1 .. 12
    /\ res.dt.Date.day \in 1 .. daysIn(res.dt.Date.month, res.dt.Date.year)
    /\ MysqlDayNumber(res.dt.Date.year, res.dt.Date.month, res.dt.Date.day)
           = OriginalDayNumber + DaysMoved

WeekdayFromMonday(year, yday) == (daysBeforeYear(year) + yday - 1) % 7

\* The day of the year (at most 4, possibly 0 or below) of the Monday that
\* starts ISO week 1: the week that holds January 4.
IsoWeekOneStart(year) == 4 - WeekdayFromMonday(year, 4)

\* ISO 8601: the week-numbering year and the week of a date.
IsoYearOf(d) ==
    IF YearDay(d) < IsoWeekOneStart(d.year) THEN d.year - 1
    ELSE IF YearDay(d) >= daysOfYear(d.year) + IsoWeekOneStart(d.year + 1)
    THEN d.year + 1
    ELSE d.year

IsoWeekOf(d) ==
    LET start == IF IsoYearOf(d) < d.year
                 THEN IsoWeekOneStart(d.year - 1) - daysOfYear(d.year - 1)
                 ELSE IF IsoYearOf(d) > d.year
                 THEN IsoWeekOneStart(d.year + 1) + daysOfYear(d.year)
                 ELSE IsoWeekOneStart(d.year)
    IN ((YearDay(d) - start) \div 7) + 1

\* C12 as stated: Date.Week(1) is the ISO week number of the date, 52 for
\* 2023-01-01.
C12_WeekOneIsISOWeek ==
    (op = "Date.Week" /\ arg.mode = 1) => res.week = IsoWeekOf(arg.d)

\* C12, amended: Date.Week(1) is the ISO week number of the date when the
\* ISO week belongs to the date's own year, 0 when it belongs to the year
\* before (2023-01-01), and 53 when it belongs to the year after.
C12_WeekOneIsISOWeekWithinYear ==
    (op = "Date.Week" /\ arg.mode = 1)
        => res.week = (IF IsoYearOf(arg.d) < arg.d.year THEN 0
                       ELSE IF IsoYearOf(arg.d) > arg.d.year THEN 53
                       ELSE IsoWeekOf(arg.d))

\* Week(1) of 2023-01-01, a Sunday in ISO week 52 of 2022, has returned 0.
C12_Witness ==
    /\ op = "Date.Week"
    /\ arg.mode = 1
    /\ arg.d = [year |-> 2023, month |-> 1, day |-> 1]
    /\ IsoWeekOf(arg.d) = 52
    /\ res.week = 0

\* The day of the year of its first Sunday.
FirstSunday(year) ==
    CHOOSE k \in 1 .. 7 : WeekdayFromMonday(year, k) = 6

\* C13: Date.Week(0) is 0 for a date before the first Sunday of its year
\* and otherwise 1 plus the whole weeks since that Sunday; it is in 0..53.
C13_WeekZeroCountsFromFirstSunday ==
    (op = "Date.Week" /\ arg.mode = 0)
        => /\ res.week = (IF YearDay(arg.d) < FirstSunday(arg.d.year) THEN 0
                          ELSE 1 + ((YearDay(arg.d)
                                        - FirstSunday(arg.d.year)) \div 7))
           /\ res.week \in 0 .. 53

\* Week(0) has returned 1 for 2000-01-02, the first Sunday of 2000.
C13_Witness ==
    /\ op = "Date.Week"
    /\ arg.mode = 0
    /\ arg.d = [year |-> 2000, month |-> 1, day |-> 2]
    /\ FirstSunday(2000) = 2
    /\ res.week = 1

(***************************************************************************)
(*                 Claims about Round                                      *)
(***************************************************************************)

\* The input's fraction rounded half-up to the digits asked for, as a count
\* of nanoseconds up to a whole second.
HalfUp(n, p) ==
    LET unit == precs[p + 1]
    IN CHOOSE k \in {m * unit : m \in {n \div unit, (n \div unit) + 1}} :
          /\ 2 * (IF k > n THEN k - n ELSE n - k) <= unit
          /\ (2 * (n - k) = unit) => FALSE

\* The whole seconds of a time, without its sign.
WholeSeconds(t) ==
    TimeHour(t) * SecondsPerHour + t.minute * SecondsPerMinute + t.second

CarryOf(t, p) ==
    IF HalfUp(t.nanosecond, p) = NanosPerSecond THEN 1 ELSE 0

\* The result is a time of clock fields, it keeps the sign, and its
\* magnitude is the input's with the fraction rounded half-up and the
\* carry in the seconds.
TimeRoundedHalfUp(in, out, p) ==
    /\ out.minute \in 0 .. 59
    /\ out.second \in 0 .. 59
    /\ out.nanosecond % precs[p + 1] = 0
    /\ out.nanosecond < NanosPerSecond
    /\ TimeNeg(out) = TimeNeg(in)
    /\ WholeSeconds(out) = WholeSeconds(in) + CarryOf(in, p)
    /\ out.nanosecond = HalfUp(in.nanosecond, p) % NanosPerSecond

\* The same for a date with a time of day: the carry moves the date.
DateTimeRoundedHalfUp(in, out, p) ==
    LET secs == WholeSeconds(in.Time) + CarryOf(in.Time, p)
        day == MysqlDayNumber(in.Date.year, in.Date.month, in.Date.day)
                   + (secs \div SecondsPerDay)
    IN /\ out.Time.hour \in 0 .. 23
       /\ out.Time.minute \in 0 .. 59
       /\ out.Time.second \in 0 .. 59
       /\ out.Time.nanosecond % precs[p + 1] = 0
       /\ out.Time.nanosecond = HalfUp(in.Time.nanosecond, p) % NanosPerSecond
       /\ WholeSeconds(out.Time) = secs % SecondsPerDay
       /\ MysqlDayNumber(out.Date.year, out.Date.month, out.Date.day) = day
       /\ out.Date.month \in 1 .. 12
       /\ out.Date.day \in 1 .. daysIn(out.Date.month, out.Date.year)

\* C14: Time.Round(p) and DateTime.Round(p), for p in 0..9, return the
\* input rounded half-up to p fractional digits, the carry propagating into
\* seconds, minutes, hours and, for a DateTime, the date.
C14_RoundsHalfUp ==
    /\ op = "Time.Round"
           => TimeRoundedHalfUp(arg.dt.Time, res.dt.Time, arg.p)
    /\ (op = "DateTime.Round" /\ DateIsZero(arg.dt.Date))
           => /\ DateIsZero(res.dt.Date)
              /\ TimeRoundedHalfUp(arg.dt.Time, res.dt.Time, arg.p)
    /\ (op = "DateTime.Round" /\ ~DateIsZero(arg.dt.Date))
           => DateTimeRoundedHalfUp(arg.dt, res.dt, arg.p)

\* Time.Round alone does so, for negative times and times of many hours
\* as well.
C14_TimeRoundsHalfUp ==
    op = "Time.Round" => TimeRoundedHalfUp(arg.dt.Time, res.dt.Time, arg.p)

\* DateTime.Round does so when the time is not negative and the carry does
\* not leave the last day of the calendar.
C14_DateTimeRoundsHalfUpBeforeTheEnd ==
    (/\ op = "DateTime.Round"
     /\ ~TimeNeg(arg.dt.Time)
     /\ ~(/\ arg.dt.Date = [year |-> 9999, month |-> 12, day |-> 31]
          /\ WholeSeconds(arg.dt.Time) + CarryOf(arg.dt.Time, arg.p)
                 = SecondsPerDay))
        => C14_RoundsHalfUp

(***************************************************************************)
(*                 Claims about NewFromString                              *)
(***************************************************************************)

AllDigits(t) == \A k \in 1 .. Len(t) : IsDigit(t[k])

\* A digit string, or digits around one '.', with a digit in it.
PlainNumber(t) ==
    /\ \E k \in 1 .. Len(t) : IsDigit(t[k])
    /\ \/ AllDigits(t)
       \/ \E k \in 1 .. Len(t) :
             /\ t[k] = "."
             /\ AllDigits(SubSeq(t, 1, k - 1))
             /\ AllDigits(SubSeq(t, k + 1, Len(t)))

\* The digits of a text, its '.' left out.
DigitsAround(t) == SelectSeq(t, IsDigit)

\* The count of the digits after the '.', 0 without one.
DigitsAfterPoint(t) ==
    IF \E k \in 1 .. Len(t) : t[k] = "."
    THEN Len(t) - (CHOOSE k \in 1 .. Len(t) : t[k] = ".")
    ELSE 0

\* C15: for a plain digit string of any length NewFromString returns, with
\* a nil error, the number of exactly those digits (leading zeroes aside,
\* which a number does not have) with exponent 0, and for digits around a
\* '.' the number of all the digits with the count of the digits after the
\* '.' as negative exponent, trailing zeroes kept.
C15_NewFromStringKeepsEveryDigit ==
    (op = "NewFromString" /\ PlainNumber(arg.s))
        => /\ res.err = "nil"
           /\ res.dec.value
                  = [neg |-> FALSE,
                     abs |-> Normalize(DigitsOf(DigitsAround(arg.s)))]
           /\ res.dec.exp = -DigitsAfterPoint(arg.s)

\* 66 nines have come back as 66 nines.
C15_Witness ==
    /\ op = "NewFromString"
    /\ arg.s = [k \in 1 .. 66 |-> "9"]
    /\ res.err = "nil"
    /\ res.dec = [value |-> [neg |-> FALSE, abs |-> [k \in 1 .. 66 |-> 9]],
                  exp |-> 0]

(***************************************************************************)
(*                 Claims about the classification predicates              *)
(***************************************************************************)

\* IsDate(): TIMESTAMP, DATE, TIME, DATETIME
ListedAsDate == {"TIMESTAMP", "DATE", "TIME", "DATETIME"}

\* C17: IsDate(t) holds for exactly the types the listing of the
\* classification functions names for it: TIMESTAMP, DATE, TIME and
\* DATETIME.
C17_IsDateMatchesItsListing ==
    op = "IsDate" => (res.holds <=> arg.typ \in ListedAsDate)

\* IsDateOrTime holds for exactly these four types.
C17_IsDateOrTimeMatchesTheListing ==
    op = "IsDateOrTime" => (res.holds <=> arg.typ \in ListedAsDate)

(***************************************************************************)
(*                 Claims about ParseRows                                  *)
(***************************************************************************)

\* C16: ParseRows applied to the printed form of a list of rows returns a
\* nil error and rows equal to the original, for rows with negative
\* numbers, empty rows and the empty list as well.
C16_ParseRowsReifiesTheRows ==
    op = "ParseRows" => (res.err = "nil" /\ res.rows = arg.rows)

HasNegative(rows) ==
    \E r \in 1 .. Len(rows) : \E k \in 1 .. Len(rows[r]) :
        rows[r][k].val # <<>> /\ rows[r][k].val[1] = "-"

\* It does so for the lists without a negative number.
C16_ParseRowsReifiesWithoutNegatives ==
    (op = "ParseRows" /\ ~HasNegative(arg.rows))
        => (res.err = "nil" /\ res.rows = arg.rows)

\* The tokens of a text.
RECURSIVE TokensOf(_, _)
TokensOf(input, i) ==
    LET at == runEnd(input, i, {" ", "\t", "\n", "\r"}) IN
    IF at > Len(input) THEN <<>>
    ELSE LET tok == scanToken(input, at)
         IN <<[kind |-> tok.kind, text |-> tok.text]>>
                \o TokensOf(input, tok.next)

IsChar(tok, c) == tok.kind = "Char" /\ tok.text = <<c>>
IsLiteral(tok) ==
    \/ tok.kind \in {"Int", "Float"}
    \/ /\ tok.kind = "String"
       /\ Len(tok.text) >= 2
       /\ tok.text[Len(tok.text)] = "\""

Matched(next, rows) == [kind |-> "ok", next |-> next, rows |-> rows]
RanOut == [kind |-> "eof", next |-> 0, rows |-> 0]
Mismatch == [kind |-> "bad", next |-> 0, rows |-> 0]

\* NULL | TYPE ( literal )
matchValue(ts, i) ==
    IF ts[i].kind # "Ident" THEN Mismatch
    ELSE IF ts[i].text = <<"N", "U", "L", "L">> THEN Matched(i + 1, 0)
    ELSE IF ~IsTypeName(ts[i].text) THEN Mismatch
    ELSE IF i + 1 > Len(ts) THEN RanOut
    ELSE IF ~IsChar(ts[i + 1], "(") THEN Mismatch
    ELSE IF i + 2 > Len(ts) THEN RanOut
    ELSE IF ~IsLiteral(ts[i + 2]) THEN Mismatch
    ELSE IF i + 3 > Len(ts) THEN RanOut
    ELSE IF ~IsChar(ts[i + 3], ")") THEN Mismatch
    ELSE Matched(i + 4, 0)

\* The values of a row after its "[", up to its "]".
RECURSIVE matchValues(_, _)
matchValues(ts, i) ==
    IF i > Len(ts) THEN RanOut
    ELSE IF IsChar(ts[i], "]") THEN Matched(i + 1, 0)
    ELSE LET v == matchValue(ts, i)
         IN IF v.kind = "ok" THEN matchValues(ts, v.next) ELSE v

\* The rows of a list after its "[", up to its "]"; n rows were closed.
RECURSIVE matchRows(_, _, _)
matchRows(ts, i, n) ==
    IF i > Len(ts) THEN RanOut
    ELSE IF IsChar(ts[i], "]") THEN Matched(i + 1, n)
    ELSE IF ~IsChar(ts[i], "[") THEN Mismatch
    ELSE LET r == matchValues(ts, i + 1)
         IN IF r.kind = "ok" THEN matchRows(ts, r.next, n + 1) ELSE r

\* "[" rows "]" at the start of the tokens.
matchList(ts) ==
    IF ts = <<>> THEN RanOut
    ELSE IF ~IsChar(ts[1], "[") THEN Mismatch
    ELSE matchRows(ts, 2, 0)

\* C21: ParseRows returns a nil error exactly when the tokens start with
\* "[", complete rows and the closing "]", and then as many rows as were
\* closed; otherwise it returns no rows and an error, which is
\* io.ErrUnexpectedEOF exactly when the tokens ran out before that "]".
C21_ParseRowsAcceptsTheGrammar ==
    op \in {"ParseRows", "ParseRowsOfText"} =>
        LET m == matchList(TokensOf(arg.input, 1)) IN
        /\ res.err = "nil" <=> m.kind = "ok"
        /\ res.err = "nil" => Len(res.rows) = m.rows
        /\ res.err # "nil" => res.rows = <<>>
        /\ res.err = "unexpected EOF" <=> m.kind = "eof"

\* A text that ends inside a value was refused with io.ErrUnexpectedEOF.
C21_Witness ==
    /\ op = "ParseRowsOfText"
    /\ arg.input = <<"[", "[", "I", "N", "T", "6", "4", "(", "1">>
    /\ res.err = "unexpected EOF"

(***************************************************************************)
(*                 Claims about RowToProto3Inplace                         *)
(***************************************************************************)

\* The number of bytes of the values of the row before the k-th that are
\* not NULL.
RECURSIVE BytesBefore(_, _)
BytesBefore(row, k) ==
    IF k <= 1 THEN 0
    ELSE BytesBefore(row, k - 1)
             + (IF row[k - 1] = NULL THEN 0 ELSE Len(row[k - 1].val))

RECURSIVE SumOfLengths(_)
SumOfLengths(lengths) ==
    IF lengths = <<>> THEN 0
    ELSE (IF Head(lengths) >= 0 THEN Head(lengths) ELSE 0)
             + SumOfLengths(Tail(lengths))

\* C22: after RowToProto3Inplace(row, result), whatever result held,
\* Lengths has one entry per value, -1 for NULL and the number of bytes
\* otherwise, Values is the bytes of the values that are not NULL one after
\* the other, and the total returned is the length of Values and the sum of
\* the entries of Lengths that are not negative.
C22_RowToProto3InplaceFillsTheRow ==
    op \in {"RowToProto3Inplace", "RowToProto3"} =>
        LET lengths == res.result.Lengths.elems
            values == res.result.Values.elems
        IN /\ Len(lengths) = Len(arg.row)
           /\ \A k \in 1 .. Len(arg.row) :
                 /\ lengths[k] = IF arg.row[k] = NULL THEN -1
                                 ELSE Len(arg.row[k].val)
                 /\ arg.row[k] # NULL =>
                       SubSeq(values, BytesBefore(arg.row, k) + 1,
                              BytesBefore(arg.row, k) + Len(arg.row[k].val))
                           = arg.row[k].val
           /\ Len(values) = BytesBefore(arg.row, Len(arg.row) + 1)
           /\ res.total = Len(values)
           /\ res.total = SumOfLengths(lengths)

\* A row with NULL and the empty value was stored in a result that held
\* other lengths and bytes.
C22_Witness ==
    /\ op = "RowToProto3Inplace"
    /\ arg.result.Lengths.elems # <<>>
    /\ arg.result.Values.elems # <<>>
    /\ arg.row = <<NULL, [typ |-> "VARCHAR", val |-> <<>>],
                   [typ |-> "VARCHAR", val |-> <<"a", "b">>]>>
    /\ res.result.Lengths.elems = <<-1, 0, 2>>

(***************************************************************************)
(*                 Claims about the signs of NewFromString                 *)
(***************************************************************************)

\* The positions (from 1) of a '-' that is neither the first byte nor the
\* byte after the first 'e' or 'E'.
MisplacedMinus(s) ==
    {k \in 2 .. Len(s) :
        /\ s[k] = "-"
        /\ ~(s[k - 1] \in {"e", "E"} /\ seenAt(s, {"e", "E"}, k - 1) = k - 2)}

\* C23: NewFromString of a text with a '-' that is neither at its start nor
\* at the start of its exponent returns an error.
C23_MisplacedMinusIsAnError ==
    (op = "NewFromString" /\ MisplacedMinus(arg.s) # {})
        => res.err # "nil"

\* It does so when the '-' comes before any 'e' or 'E'.
C23_MinusBeforeTheExponentIsAnError ==
    (op = "NewFromString"
        /\ \E k \in MisplacedMinus(arg.s) : seenAt(arg.s, {"e", "E"}, k) = -1)
        => res.err # "nil"

(***************************************************************************)
(*                 Claims about RowsEquals                                 *)
(***************************************************************************)

\* How often the row occurs in the list.
Occurrences(row, rows) == Cardinality({k \in 1 .. Len(rows) : rows[k] = row})

\* The two lists hold the same rows, each as often.
IsPermutation(want, got) ==
    /\ Len(want) = Len(got)
    /\ \A k \in 1 .. Len(want) :
          Occurrences(want[k], want) = Occurrences(want[k], got)

\* C24: RowsEquals(want, got) returns nil exactly when got is a permutation
\* of want, and a RowMismatchError otherwise.
C24_RowsEqualsIsPermutation ==
    op = "RowsEquals" =>
        /\ res.err = "nil" <=> IsPermutation(arg.want, arg.got)
        /\ res.err # "nil" => res.err = "RowMismatchError"

\* Three rows, two of them equal, were found equal to the same rows in
\* another order.
C24_Witness ==
    /\ op = "RowsEquals"
    /\ Len(arg.want) = 3
    /\ arg.want # arg.got
    /\ arg.want[1] = arg.want[2]
    /\ arg.want[1] # arg.want[3]
    /\ res.err = "nil"

(***************************************************************************)
(*                 Claims about Time.Compare                               *)
(***************************************************************************)

\* The sign of t1.ToDuration() - t2.ToDuration().
SignOfDifference(t1, t2) ==
    LET d == DurAdd(Time_ToDuration(t1), DurNegate(Time_ToDuration(t2)))
    IN IF d.s < 0 THEN -1 ELSE IF d.s = 0 /\ d.n = 0 THEN 0 ELSE 1

\* C25: t1.Compare(t2) is the sign of t1.ToDuration() - t2.ToDuration(),
\* 0 exactly for equal durations, a zero of either sign included, and
\* t1.Compare(t2) = -t2.Compare(t1).
C25_CompareIsTheOrderOfDurations ==
    op = "Time.Compare" =>
        /\ res.cmp = SignOfDifference(arg.t, arg.t2)
        /\ res.cmp = -res.back

IsZeroTime(t) ==
    TimeHour(t) = 0 /\ t.minute = 0 /\ t.second = 0 /\ t.nanosecond = 0

\* It is so unless the two times are zeroes of different signs.
C25_CompareIsTheOrderExceptOfZeroes ==
    (op = "Time.Compare"
        /\ ~(IsZeroTime(arg.t) /\ IsZeroTime(arg.t2)
                /\ TimeNeg(arg.t) # TimeNeg(arg.t2)))
        => /\ res.cmp = SignOfDifference(arg.t, arg.t2)
           /\ res.cmp = -res.back

(***************************************************************************)
(*                 Claims about a failed AddInterval                       *)
(***************************************************************************)

\* What a call of AddInterval returned is the receiver, field by field.
ReturnsTheReceiver ==
    IF op = "DateTime.AddInterval" THEN res.dt = arg.dt
    ELSE IF op = "Date.AddInterval" THEN res.d = arg.dt.Date
    ELSE res.t = arg.dt.Time

\* C26: when DateTime.AddInterval, Date.AddInterval or Time.AddInterval
\* reports ok = false, the value it returns equals the receiver in every
\* field.
C26_FailedAddIntervalChangesNothing ==
    (op \in AddIntervalOps /\ ~res.ok) => ReturnsTheReceiver

\* It is so for Date.AddInterval and Time.AddInterval, and for
\* DateTime.AddInterval the date is the receiver's.
C26_FailedAddIntervalKeepsTheDate ==
    (op \in AddIntervalOps /\ ~res.ok)
        => IF op = "DateTime.AddInterval" THEN res.dt.Date = arg.dt.Date
           ELSE ReturnsTheReceiver

(***************************************************************************)
(*                 Claims about NewTimeFromSeconds                         *)
(***************************************************************************)

\* C27: NewTimeFromSeconds returns a Time with Hour() <= 838, Minute() and
\* Second() <= 59 and Nanosecond() < 10^9, negative exactly for a negative
\* input; for 839 hours or more it is 838:59:59 without nanoseconds and
\* with the sign of the input, otherwise its hours, minutes and seconds add
\* up to the integral part of the magnitude.
C27_NewTimeFromSecondsIsInRange ==
    op = "NewTimeFromSeconds" =>
        LET t == res.t IN
        /\ TimeHour(t) <= 838
        /\ t.minute <= 59
        /\ t.second <= 59
        /\ t.nanosecond < NanosPerSecond
        /\ TimeNeg(t) <=> (arg.seconds.neg /\ DecimalSign(arg.seconds) # 0)
        /\ IF arg.seconds.sec >= 839 * 3600
           THEN /\ TimeHour(t) = 838
                /\ t.minute = 59
                /\ t.second = 59
                /\ t.nanosecond = 0
           ELSE TimeHour(t) * 3600 + t.minute * 60 + t.second
                    = arg.seconds.sec

\* A negative number of 838 hours, 59 minutes, 59 seconds and a fraction
\* came back as it is, not saturated.
C27_Witness ==
    /\ op = "NewTimeFromSeconds"
    /\ arg.seconds.neg
    /\ arg.seconds.sec = 3020399
    /\ res.t = MkTime(negMask + 838, 59, 59, arg.seconds.ns)
    /\ arg.seconds.ns > 0

====
